---- MODULE Spec2Model ----
(***************************************************************************)
(* vCompanion: the encrypted cache store (app/services/cache_service.py)   *)
(* and the refresh orchestrator (app/services/vcenter_service.py).         *)
(*                                                                         *)
(* Every CacheService method body runs under the store's mutex, so each    *)
(* is one atomic action.  The manager's methods take no lock: they are     *)
(* modelled one shared-state access per step, so that the scheduler        *)
(* thread, the refresh-job threads and the callers interleave.             *)
(***************************************************************************)
EXTENDS Integers, Sequences, FiniteSets, TLC

\* ------------------------------------------------------------- universe

\* The endpoint ids of the configuration (VCenterConfig.id).
Endpoints == {"vcA", "vcB"}

\* Passwords a caller may hand to derive_key / connect.
Passwords == {"p1", "p2"}

\* A password value whose .encode() raises (not a str): derive_key's except path.
BadPassword == "not_a_str"

NoKey == "none"

\* The keys of CacheService._data other than "vcenters": each save_<category>
\* has the same body.  A specification picks the categories it runs over in its
\* initial state; the operators below range over DOMAIN data.
SnapCategories == {"hosts", "vms", "alerts", "networks", "clusters", "storage"}

\* The category of refresh-status records.
StatusCategory == "vcenters"

\* Values a fetch can hand to save_<category>: "s1" is JSON-native, "raw" holds
\* an object (datetime, pyVmomi) that VMwareJSONEncoder turns into a string.
SnapValues == {"s1", "raw"}

Statuses == {"READY", "REFRESHING", "ERROR"}

\* _refresh_task: a REFRESHING status younger than this many seconds suppresses
\* a new cycle.
StaleSeconds == 300

\* settings.app_settings.refresh_interval_seconds, its default.
RefreshInterval == 120

\* A cycle that fetches the VMs before the hosts.
FetchOrderVmsFirst == <<"vms", "hosts", "alerts", "networks", "clusters", "storage">>

\* The order in which _refresh_task fetches and saves the categories.
FetchOrder == <<"hosts", "vms", "alerts", "networks", "clusters", "storage">>

\* What a failed or disconnected fetch returns ([] or {}).
EmptyResult == "empty"

\* ------------------------------------------------------------- bounds

\* How many times the clock may advance.
MaxTicks == 2

\* How many refresh-job threads may be alive at once.
MaxJobs == 2

\* How many ids a caller may pass as selected_ids.
MaxSelected == 2

\* The amount by which the clock advances at its n-th step: 299 s, then 1 s,
\* and so on, which puts a status at 299 s and then at 300 s of age.
TickStep(n) == IF n % 2 = 1 THEN StaleSeconds - 1 ELSE 1

\* ------------------------------------------------------------- state

VARIABLES
    isUnlocked,   \* CacheService._is_unlocked
    fernet,       \* CacheService._fernet: the password the key derives from, or NoKey
    data,         \* CacheService._data: category -> dict (endpoint id -> value)
    disk,         \* data/<category>.enc: category -> file
    now,          \* the wall clock, in seconds
    ticks,        \* how often the clock advanced
    purgePc,      \* purge_cache handler: "idle" or "lock" (files deleted, lock pending)
    conns,        \* VCenterManager.connections: id -> [si, content] (True = not None)
    lastTrigger,  \* VCenterManager._last_refresh_trigger: id -> time
    jobs,         \* the _refresh_task threads: slot -> [e, pc, idx, age] and
                  \* (history) the categories whose fetch failed / lost the
                  \* connection, and the key of the store at the thread's start
    enabled,      \* the ids of settings.vcenters with enabled = True
    configured,   \* the ids of settings.vcenters
    connOrder,    \* the keys of VCenterManager.connections in insertion order
    changes,      \* how many settings handlers (add / update / delete) have run
    connector,    \* one VCenterConnection object: [si, content] (True = not None)
    lastErrorType, \* its last_error_type ("none" = None)
    remote,       \* its endpoint: reachable, and whether the session that si
                  \* refers to is valid there
    connHist,     \* history: the last call on the connector and what it returned,
                  \* and whether a probe has failed since the last successful connect
    lockKey,      \* history: the key password the last lock() discarded
    phase,        \* history: "locked" since a lock() with no file written since,
                  \* "restored" right after a derive_key with the same password
                  \* that follows it, "unlocked" right after any other derive_key,
                  \* else "none"
    lockedWrite,  \* history: the last step was a save / status update that found
                  \* the store locked
    lastRead,     \* history: the last call of a read path and what it returned
    lockHolder,   \* CacheService._lock: the thread that holds it, or "none"
    callers,      \* the threads inside a CacheService method: thread -> the
                  \* method, its position and what it has gathered so far
    connectCall,  \* a connect_all call: its arguments, position, results map and
                  \* (history) the connects it made per id and its derive_key outcome
    worker,       \* VCenterManager._worker_thread: position, loop index, `now` read,
                  \* the vc_id the loop has bound, the size of the map at loop start
    stopEvent,    \* VCenterManager._stop_event
    disconnectCall, \* a disconnect_all call: its position and loop index
    starters,     \* the threads that call connect_all on one manager: caller ->
                  \* position inside connect_all / start_worker
    workerThread, \* VCenterManager._worker_thread: 0 = None, else the thread's number
    schedThreads, \* the _worker_loop threads started so far: number -> position
    fanout,       \* a get_all_recent_events / get_all_recent_tasks call: position,
                  \* the futures it submitted and the results it has gathered
    handler       \* an add_vcenter handler between its statements: position and id

cacheVars == <<isUnlocked, fernet, data, disk>>
histVars == <<lockKey, phase, lockedWrite, lastRead>>
clockVars == <<now, ticks>>
mgrVars == <<conns, lastTrigger, jobs>>
procVars == <<connectCall, worker, stopEvent, disconnectCall>>
cfgVars == <<enabled, configured, connOrder, changes>>
connVars == <<connector, lastErrorType, remote, connHist>>
syncVars == <<lockHolder, callers>>
extVars == <<starters, workerThread, schedThreads, fanout, handler>>
vars == <<isUnlocked, fernet, data, disk, now, ticks, purgePc, enabled,
          configured, connOrder, changes, connector, lastErrorType, remote, connHist,
          conns, lastTrigger, jobs, lockKey, phase, lockedWrite, lastRead,
          lockHolder, callers,
          connectCall, worker, stopEvent, disconnectCall,
          starters, workerThread, schedThreads, fanout, handler>>

\* ------------------------------------------------------------- dicts

\* A Python dict keyed by endpoint id: a function whose domain is its key set.
EmptyDict == << >>

\* d[e] = v  (insert or replace)
Upsert(d, e, v) == [x \in DOMAIN d \cup {e} |-> IF x = e THEN v ELSE d[x]]

\* d.update(l)
DictUpdate(d, l) == [x \in DOMAIN d \cup DOMAIN l |-> IF x \in DOMAIN l THEN l[x] ELSE d[x]]

\* The _data of __init__ and of lock(): every category an empty dict.
EmptyData == [c \in DOMAIN data |-> EmptyDict]

NoFile == [kind |-> "none"]
CorruptFile == [kind |-> "corrupt"]
EncFile(key, content) == [kind |-> "enc", key |-> key, content |-> content]

\* ------------------------------------------------------------- JSON, Fernet

\* json.dumps(cls=VMwareJSONEncoder) then json.loads of one snapshot value: an
\* object the encoder does not know comes back as its string form.
JsonValue(v) == IF v = "raw" THEN "rawstr" ELSE v

\* json.loads(json.dumps(d)) of one category dict.
JsonRoundTrip(c, d) ==
    IF c = StatusCategory THEN d ELSE [e \in DOMAIN d |-> JsonValue(d[e])]

\* Fernet.decrypt succeeds exactly on a token made under the same key.
Decrypts(file, key) == file.kind = "enc" /\ file.key = key

\* ------------------------------------------------------------- CacheService

\* _save_to_disk(key=c): the file of category c after the call.
SaveToDisk(unlocked, key, d, c, file) ==
    IF ~unlocked \/ key = NoKey THEN file ELSE EncFile(key, JsonRoundTrip(c, d))

\* _load_from_disk, one category: the in-memory dict after the loop body.
LoadCategory(d, file, key) ==
    IF file.kind = "none" THEN d
    ELSE IF Decrypts(file, key) THEN DictUpdate(d, file.content)
    ELSE d

\* A _load_from_disk that gives up at the first file it cannot decrypt: no
\* category loads unless every file present decrypts.
LoadFromDiskAllOrNothing(mem, files, key) ==
    IF \A c \in DOMAIN mem : files[c].kind = "none" \/ Decrypts(files[c], key)
    THEN [c \in DOMAIN mem |-> LoadCategory(mem[c], files[c], key)]
    ELSE mem

\* _load_from_disk: every category, each on its own.
LoadFromDisk(mem, files, key) ==
    [c \in DOMAIN mem |-> LoadCategory(mem[c], files[c], key)]

\* derive_key(password): password.encode() raises on a non-str and the bare
\* except returns False before any field is assigned.
derive_key(p) ==
    /\ p \in Passwords
    /\ fernet' = p
    /\ isUnlocked' = TRUE
    /\ data' = LoadFromDisk(data, disk, p)
    /\ UNCHANGED disk

derive_key_fails(p) ==
    /\ p \notin Passwords
    /\ UNCHANGED cacheVars

\* A lock() that discards the key and keeps the category data.
lock_keeps_data ==
    /\ fernet' = NoKey
    /\ isUnlocked' = FALSE
    /\ UNCHANGED <<data, disk>>

\* lock()
lock ==
    /\ fernet' = NoKey
    /\ isUnlocked' = FALSE
    /\ data' = EmptyData
    /\ UNCHANGED disk

\* A save_<category> without the "if not self._is_unlocked: return" line.
save_category_unguarded(c, e, v) ==
    /\ data' = [data EXCEPT ![c] = Upsert(data[c], e, v)]
    /\ disk' = [disk EXCEPT ![c] = SaveToDisk(isUnlocked, fernet, data'[c], c, disk[c])]
    /\ UNCHANGED <<isUnlocked, fernet>>

\* A save_<category> that calls _save_to_disk() without a key: every
\* category is serialised to its file.
save_category_every_file(c, e, v) ==
    IF ~isUnlocked THEN UNCHANGED cacheVars
    ELSE /\ data' = [data EXCEPT ![c] = Upsert(data[c], e, v)]
         /\ disk' = [k \in DOMAIN disk |-> SaveToDisk(isUnlocked, fernet, data'[k], k, disk[k])]
         /\ UNCHANGED <<isUnlocked, fernet>>

\* save_hosts / save_vms / ... (vcenter_id, value)
save_category(c, e, v) ==
    IF ~isUnlocked THEN UNCHANGED cacheVars
    ELSE /\ data' = [data EXCEPT ![c] = Upsert(data[c], e, v)]
         /\ disk' = [disk EXCEPT ![c] = SaveToDisk(isUnlocked, fernet, data'[c], c, disk[c])]
         /\ UNCHANGED <<isUnlocked, fernet>>

\* The record update_vcenter_status stores.
StatusRecord(s, t) == [status |-> s, last_refresh |-> t]

\* update_vcenter_status(vc_id, name, status, ...)
update_vcenter_status(e, s) ==
    IF ~isUnlocked THEN UNCHANGED cacheVars
    ELSE /\ data' = [data EXCEPT ![StatusCategory] = Upsert(data[StatusCategory], e, StatusRecord(s, now))]
         /\ disk' = [disk EXCEPT ![StatusCategory] =
                        SaveToDisk(isUnlocked, fernet, data'[StatusCategory], StatusCategory, disk[StatusCategory])]
         /\ UNCHANGED <<isUnlocked, fernet>>

\* get_vcenter_status(vc_id): the record, or None.
NoStatus == [status |-> "None", last_refresh |-> 0]
get_vcenter_status(e) ==
    IF e \in DOMAIN data[StatusCategory] THEN data[StatusCategory][e] ELSE NoStatus

\* enabled_vc_ids
enabled_vc_ids == enabled

\* An accessor without the "if vc_id in enabled_ids" filter.
get_all_unfiltered(c) == data[c]

\* get_all_networks / get_all_storage: the entries of the enabled endpoints.
\* get_all_vms / hosts / alerts / clusters concatenate the same entries.
get_all(c) == [e \in DOMAIN data[c] \cap enabled_vc_ids |-> data[c][e]]

\* get_vcenter_status(): the records of the enabled endpoints.
get_vcenter_status_all ==
    [e \in DOMAIN data[StatusCategory] \cap enabled_vc_ids |-> data[StatusCategory][e]]

\* ------------------------------------------------------------- get_cached_stats

\* The list a snapshot value stands for, with the fields get_cached_stats
\* reads: get_vms / get_hosts / get_alerts put the connection's id into every
\* record as vcenter_id, and get_alerts gives every alert the severity
\* "critical" (red) or "warning" (yellow, gray).  The JSON round trip keeps the
\* count and these fields.
Records(c, e, v) ==
    LET vm(p) == [vcenter_id |-> e, power_state |-> p]
        host(m) == [vcenter_id |-> e, in_maintenance |-> m]
        alert(sv) == [vcenter_id |-> e, severity |-> sv]
    IN CASE v = "s1" /\ c = "vms" -> <<vm("poweredOn"), vm("poweredOff")>>
         [] v = "s1" /\ c = "hosts" -> <<host(FALSE)>>
         [] v = "s1" /\ c = "alerts" -> <<alert("critical"), alert("warning"), alert("warning")>>
         [] v \in {"raw", "rawstr"} /\ c = "vms" -> <<vm("poweredOn")>>
         [] v \in {"raw", "rawstr"} /\ c = "hosts" -> <<host(TRUE), host(FALSE)>>
         [] v \in {"raw", "rawstr"} /\ c = "alerts" -> <<alert("warning")>>
         [] OTHER -> << >>

\* "for vc_id, l in self._data[c].items(): if vc_id in ids: out.extend(l)"
RECURSIVE extend_all(_, _)
extend_all(c, ids) ==
    IF ids = {} THEN << >>
    ELSE LET e == CHOOSE x \in ids : TRUE
         IN Records(c, e, data[c][e]) \o extend_all(c, ids \ {e})

\* The same loop without the "if vc_id in enabled_ids" test.
gather_unfiltered(c) == extend_all(c, DOMAIN data[c])

\* The lists get_cached_stats gathers (lines 231-236), and get_all_vms /
\* get_all_hosts / get_all_alerts return.
gather(c) == extend_all(c, DOMAIN data[c] \cap enabled_vc_ids)

\* sum(1 for x in l if x.get(field) == value)
CountWhere(l, field, value) == Cardinality({i \in DOMAIN l : l[i][field] = value})

\* What get_cached_stats returns when every total is zero (line 249).
NoData == [total_vms |-> "N/A", has_data |-> FALSE, raw_alerts |-> << >>]

\* The per_vcenter dict of lines 251-280: one entry per status record of an
\* enabled endpoint; an alert that is not critical counts as a warning.
per_vcenter(vms, hosts, alerts) ==
    [e \in DOMAIN data[StatusCategory] \cap enabled_vc_ids |->
        LET mine(l) == SelectSeq(l, LAMBDA x : x.vcenter_id = e)
        IN [connected |-> data[StatusCategory][e].status = "READY",
            vms |-> Len(mine(vms)),
            vms_on |-> CountWhere(mine(vms), "power_state", "poweredOn"),
            hosts |-> Len(mine(hosts)),
            critical |-> CountWhere(mine(alerts), "severity", "critical"),
            warning |-> Len(mine(alerts)) - CountWhere(mine(alerts), "severity", "critical")]]

\* get_cached_stats() from line 238 on: the result for the gathered lists.
stats_of(vms, hosts, alerts) ==
    LET total_vms == Len(vms)
        total_hosts == Len(hosts)
        powered_on == CountWhere(vms, "power_state", "poweredOn")
        total_critical == CountWhere(alerts, "severity", "critical")
        total_warning == CountWhere(alerts, "severity", "warning")
    IN IF total_vms = 0 /\ total_hosts = 0 /\ total_critical = 0 /\ total_warning = 0
       THEN NoData
       ELSE [total_vms |-> total_vms,
             powered_on_vms |-> powered_on,
             host_count |-> total_hosts,
             critical_alerts |-> total_critical,
             warning_alerts |-> total_warning,
             per_vcenter |-> per_vcenter(vms, hosts, alerts),
             has_data |-> TRUE,
             raw_alerts |-> alerts]

\* get_cached_stats()
get_cached_stats == stats_of(gather("vms"), gather("hosts"), gather("alerts"))

\* VCenterManager.get_stats()
get_stats ==
    IF ~isUnlocked THEN [total_vms |-> "Locked", has_data |-> FALSE] ELSE get_cached_stats

\* ------------------------------------------------------------- the store's lock

\* The threads that call into the store in the lock specification.
Threads == {"job", "reader", "stats"}

\* A thread that is not inside a CacheService method.
Outside == [op |-> "none", pc |-> "out", e |-> "-", v |-> "-", done |-> {}, acc |-> << >>]

\* No thread holds the lock; no thread is inside a method.
InitSync ==
    /\ lockHolder = "none"
    /\ callers = [t \in Threads |-> Outside]

\* ------------------------------------------------------------- calls at rest

\* The threads that call connect_all, and the most scheduler threads one
\* behaviour starts.
Callers == {"c1", "c2"}
MaxThreads == 2

\* A fan-out read that has not been called.
NoFanout == [pc |-> "idle", futures |-> << >>, gathered |-> {}]

\* No settings handler is between two of its statements.
NoHandler == [pc |-> "idle", e |-> "-"]

\* No connect_all caller, no scheduler thread of the thread-level view, no
\* fan-out read and no handler in flight.
InitExt ==
    /\ starters = [c \in Callers |-> "out"]
    /\ workerThread = 0
    /\ schedThreads = [t \in 1..MaxThreads |-> "unborn"]
    /\ fanout = NoFanout
    /\ handler = NoHandler

\* ------------------------------------------------------------- history

\* lock() ran on an unlocked store: remember the key it discarded.
RecordLock ==
    /\ lockKey' = IF isUnlocked THEN fernet ELSE lockKey
    /\ phase' = IF isUnlocked THEN "locked" ELSE phase
    /\ lockedWrite' = FALSE
    /\ UNCHANGED lastRead

\* derive_key(p) ran on the locked store.
RecordUnlock(p) ==
    /\ phase' = IF phase = "locked" /\ p = lockKey THEN "restored" ELSE "unlocked"
    /\ lockedWrite' = FALSE
    /\ UNCHANGED <<lockKey, lastRead>>

\* A write call: a round trip under way is over once a file or the memory changes.
RecordWrite ==
    /\ phase' = IF disk' = disk /\ data' = data /\ phase = "locked" THEN phase ELSE "none"
    /\ lockedWrite' = ~isUnlocked
    /\ UNCHANGED <<lockKey, lastRead>>

\* A change of the files from outside the store.
RecordDisk ==
    /\ phase' = "none"
    /\ lockedWrite' = FALSE
    /\ UNCHANGED <<lockKey, lastRead>>

\* ------------------------------------------------------------- cache store actions

\* connect_all on a locked store: derive_key(password) succeeds.
CacheUnlock(p) ==
    /\ ~isUnlocked
    /\ derive_key(p)
    /\ RecordUnlock(p)
    /\ UNCHANGED <<now, ticks, purgePc, extVars, syncVars, cfgVars, connVars, procVars, mgrVars>>

\* connect_all on a locked store: derive_key(password) returns False.
CacheUnlockFails(p) ==
    /\ ~isUnlocked
    /\ derive_key_fails(p)
    /\ lockedWrite' = FALSE
    /\ UNCHANGED <<now, ticks, purgePc, extVars, syncVars, cfgVars, connVars, procVars, mgrVars, lockKey, phase, lastRead>>

\* cache.lock() from clear_session / disconnect_all.
CacheLock ==
    /\ lock
    /\ RecordLock
    /\ UNCHANGED <<now, ticks, purgePc, extVars, syncVars, cfgVars, connVars, procVars, mgrVars>>

\* A save_<category> call, from a refresh job, at any time.
CacheSave(c, e, v) ==
    /\ save_category(c, e, v)
    /\ RecordWrite
    /\ UNCHANGED <<now, ticks, purgePc, extVars, syncVars, cfgVars, connVars, procVars, mgrVars>>

\* An update_vcenter_status call, from a refresh job, at any time.
CacheUpdateStatus(e, s) ==
    /\ update_vcenter_status(e, s)
    /\ RecordWrite
    /\ UNCHANGED <<now, ticks, purgePc, extVars, syncVars, cfgVars, connVars, procVars, mgrVars>>

\* purge_cache: os.remove of every *.enc file ...
PurgeDelete ==
    /\ purgePc = "idle"
    /\ disk' = [c \in DOMAIN disk |-> NoFile]
    /\ purgePc' = "lock"
    /\ UNCHANGED <<isUnlocked, fernet, data, now, ticks, cfgVars, connVars, syncVars, extVars, procVars, mgrVars>>
    /\ RecordDisk

\* ... and then cache.lock().
PurgeLock ==
    /\ purgePc = "lock"
    /\ lock
    /\ RecordLock
    /\ purgePc' = "idle"
    /\ UNCHANGED <<now, ticks, cfgVars, connVars, syncVars, extVars, procVars, mgrVars>>

\* A category file damaged on disk (truncated, tampered): Fernet rejects it.
DiskCorrupt(c) ==
    /\ disk[c].kind = "enc"
    /\ disk' = [disk EXCEPT ![c] = CorruptFile]
    /\ UNCHANGED <<isUnlocked, fernet, data, now, ticks, purgePc, extVars, syncVars, cfgVars, connVars, procVars, mgrVars>>
    /\ RecordDisk

\* ------------------------------------------------------------- VCenterConnection

\* VCenterConnection.__init__: si = None, content = None.
NewConnection == [si |-> FALSE, content |-> FALSE]

\* What connect() can meet: SmartConnect raising, RetrieveContent raising, or
\* neither.
ConnectOutcomes == {"ok", "session_fails", "content_fails"}

\* connect(user, password): the connection object afterwards.
connect(conn, outcome) ==
    CASE outcome = "ok" -> [si |-> TRUE, content |-> TRUE]
      [] outcome = "session_fails" -> conn
      [] outcome = "content_fails" -> [conn EXCEPT !.si = TRUE]

\* connect(user, password): the success flag it returns.
connect_success(outcome) == outcome = "ok"

\* disconnect()
disconnect(conn) == IF conn.si THEN NewConnection ELSE conn

\* is_alive(): False without a session, else whether si.CurrentTime() answers.
is_alive(conn, answers) == conn.si /\ answers

\* ------------------------------------------------------------- one connector

\* The error kinds connect() returns and stores, and None.
ErrorKinds == {"auth", "network", "timeout", "ssl", "unknown"}
NoError == "none"

\* Exceptions SmartConnect / RetrieveContent can raise, by class name
\* ("Exception" stands for any class outside OSError and InvalidLogin, such as
\* vim.fault.HostConnectFault or http.client.HTTPException).
Raised == {"InvalidLogin", "ConnectionRefusedError", "ConnectionResetError",
           "ConnectionAbortedError", "BrokenPipeError", "TimeoutError",
           "SSLCertVerificationError", "SSLError", "gaierror", "OSError", "Exception"}

\* The classes an exception is an instance of.
Mro(x) ==
    CASE x = "InvalidLogin" -> {"InvalidLogin", "Exception"}
      [] x \in {"ConnectionRefusedError", "ConnectionResetError",
                "ConnectionAbortedError", "BrokenPipeError"}
            -> {x, "ConnectionError", "OSError", "Exception"}
      [] x = "TimeoutError" -> {"TimeoutError", "OSError", "Exception"}
      [] x = "SSLCertVerificationError"
            -> {"SSLCertVerificationError", "SSLError", "OSError", "Exception"}
      [] x = "SSLError" -> {"SSLError", "OSError", "Exception"}
      [] x = "gaierror" -> {"gaierror", "OSError", "Exception"}
      [] x = "OSError" -> {"OSError", "Exception"}
      [] OTHER -> {"Exception"}

\* What str(e).lower() of a raised exception contains, as far as lines 506-509
\* look at it.
Texts(x) ==
    CASE x = "OSError" -> {"timed out", "no route to host", "unreachable", "other"}
      [] x = "TimeoutError" -> {"timed out"}
      [] OTHER -> {"other"}

\* An except chain that tests OSError before its subclasses.
classify_oserror_first(x, text) ==
    IF "InvalidLogin" \in Mro(x) THEN "auth"
    ELSE IF "OSError" \in Mro(x)
    THEN IF text = "timed out" THEN "timeout" ELSE "network"
    ELSE "unknown"

\* connect lines 483-522: the except clauses in their order.
classify(x, text) ==
    IF "InvalidLogin" \in Mro(x) THEN "auth"
    ELSE IF Mro(x) \cap {"ConnectionRefusedError", "ConnectionResetError",
                         "ConnectionAbortedError"} # {} THEN "network"
    ELSE IF "TimeoutError" \in Mro(x) THEN "timeout"
    ELSE IF "SSLError" \in Mro(x) THEN "ssl"
    ELSE IF "OSError" \in Mro(x)
    THEN IF text = "timed out" THEN "timeout"
         ELSE IF text \in {"no route to host", "unreachable"} THEN "network"
         ELSE "network"
    ELSE "unknown"

\* si.CurrentTime() and the property collector answer when the endpoint is
\* reachable and the session of si is valid there.
Answers == remote.reachable /\ remote.session

\* get_*_speed / get_clusters on the connector: [] without content or when the
\* remote call raises.
fetch(conn, answers) == IF conn.content /\ answers THEN "s1" ELSE EmptyResult

\* No call has been made on the connector.
NoCall == [op |-> "none", ret |-> "none", kind |-> "n/a", exc |-> "none", text |-> "none",
           failedProbe |-> FALSE, seq |-> 0]

\* A returned bool as the history records it.
Returned(b) == IF b THEN "True" ELSE "False"

\* VCenterConnection.__init__ and an endpoint that is up.
InitConnector ==
    /\ connector = NewConnection
    /\ lastErrorType = NoError
    /\ remote = [reachable |-> TRUE, session |-> FALSE]
    /\ connHist = NoCall

\* connect(user, password) that succeeds (lines 477-483).
ConnectorConnectOk ==
    /\ remote.reachable
    /\ connector' = connect(connector, "ok")
    /\ lastErrorType' = NoError
    /\ remote' = [remote EXCEPT !.session = TRUE]
    /\ connHist' = [op |-> "connect", ret |-> Returned(TRUE), kind |-> NoError, exc |-> "none",
                    text |-> "none", failedProbe |-> FALSE, seq |-> 1 - connHist.seq]
    /\ UNCHANGED <<cacheVars, histVars, clockVars, purgePc, extVars, syncVars, cfgVars, mgrVars, procVars>>

\* connect(user, password) in which SmartConnect (outcome "session_fails") or
\* RetrieveContent (outcome "content_fails") raises x.
ConnectorConnectFails(outcome, x, text) ==
    /\ outcome \in {"session_fails", "content_fails"}
    /\ text \in Texts(x)
    /\ outcome = "content_fails" => x # "InvalidLogin"
    /\ connector' = connect(connector, outcome)
    /\ lastErrorType' = classify(x, text)
    /\ remote' = IF outcome = "content_fails" THEN [remote EXCEPT !.session = TRUE] ELSE remote
    /\ connHist' = [connHist EXCEPT !.op = "connect", !.ret = Returned(FALSE),
                                    !.kind = classify(x, text), !.exc = x, !.text = text,
                                    !.seq = 1 - @]
    /\ UNCHANGED <<cacheVars, histVars, clockVars, purgePc, extVars, syncVars, cfgVars, mgrVars, procVars>>

\* is_alive() on the connector (lines 302-307).
ConnectorIsAlive ==
    /\ connHist' = [connHist EXCEPT !.op = "is_alive",
                                    !.ret = Returned(is_alive(connector, Answers)),
                                    !.failedProbe = @ \/ (connector.si /\ ~Answers),
                                    !.seq = 1 - @]
    /\ UNCHANGED <<connector, lastErrorType, remote>>
    /\ UNCHANGED <<cacheVars, histVars, clockVars, purgePc, extVars, syncVars, cfgVars, mgrVars, procVars>>

\* One get_* fetch on the connector.
ConnectorFetch ==
    /\ connHist' = [connHist EXCEPT !.op = "fetch", !.ret = fetch(connector, Answers),
                                    !.seq = 1 - @]
    /\ UNCHANGED <<connector, lastErrorType, remote>>
    /\ UNCHANGED <<cacheVars, histVars, clockVars, purgePc, extVars, syncVars, cfgVars, mgrVars, procVars>>

\* disconnect() on the connector (lines 524-529); Disconnect(si) ends the
\* session when it gets through.
ConnectorDisconnect ==
    /\ connector' = disconnect(connector)
    /\ remote' = IF connector.si /\ remote.reachable THEN [remote EXCEPT !.session = FALSE]
                 ELSE remote
    /\ connHist' = [connHist EXCEPT !.op = "disconnect", !.ret = "none", !.seq = 1 - @]
    /\ UNCHANGED <<lastErrorType>>
    /\ UNCHANGED <<cacheVars, histVars, clockVars, purgePc, extVars, syncVars, cfgVars, mgrVars, procVars>>

\* The endpoint goes down or comes back, or its session times out.
RemoteChange(up) ==
    /\ remote.reachable # up
    /\ remote' = [remote EXCEPT !.reachable = up]
    /\ UNCHANGED <<connector, lastErrorType, connHist>>
    /\ UNCHANGED <<cacheVars, histVars, clockVars, purgePc, extVars, syncVars, cfgVars, mgrVars, procVars>>

SessionExpires ==
    /\ remote.session
    /\ remote' = [remote EXCEPT !.session = FALSE]
    /\ UNCHANGED <<connector, lastErrorType, connHist>>
    /\ UNCHANGED <<cacheVars, histVars, clockVars, purgePc, extVars, syncVars, cfgVars, mgrVars, procVars>>

\* ------------------------------------------------------------- VCenterManager

\* VCenterManager.__init__: one connection and a zero trigger time per enabled
\* config; no thread yet.
IdleJob == [e |-> "-", pc |-> "idle", idx |-> 0, age |-> -1, failed |-> {}, lost |-> {}, key |-> NoKey,
            saved |-> << >>, hosts |-> "-", hostsArg |-> "-"]

\* The order of settings.vcenters at start-up.
ConfigOrder == <<"vcA", "vcB">>

InitManager ==
    /\ connOrder = SelectSeq(ConfigOrder, LAMBDA e : e \in enabled)
    /\ conns = [e \in enabled |-> NewConnection]
    /\ lastTrigger = [e \in enabled |-> 0]
    /\ jobs = [j \in 1..MaxJobs |-> IdleJob]

\* No read path has been called.
NoRead == [op |-> "none", seq |-> 0, ret |-> << >>]

InitHistory ==
    /\ lockKey = NoKey
    /\ phase = "none"
    /\ lockedWrite = FALSE
    /\ lastRead = NoRead

\* The thread of a slot has ended (or never started).
Ended(j) == jobs[j].pc \in {"idle", "suppressed"}

\* The job is past its duplicate-trigger check and has not ended.
Running(j) == jobs[j].pc \in {"set_refreshing", "fetch", "finish"}

\* The index in FetchOrder of the first category after position i that the
\* store holds, or Len(FetchOrder) + 1 when there is none.
NextFetch(i) ==
    LET later == {k \in (i + 1)..Len(FetchOrder) : FetchOrder[k] \in DOMAIN data}
    IN IF later = {} THEN Len(FetchOrder) + 1
       ELSE CHOOSE k \in later : \A m \in later : k <= m

\* The job's connection object still holds content (it is None after
\* disconnect() and on a connection that never connected).
HasContent(e) == e \in DOMAIN conns /\ conns[e].content

\* The comparison of line 73 written "<= 300".
IsFreshInclusive(age) == age <= StaleSeconds

\* _refresh_task line 73: "... .total_seconds() < 300".
IsFresh(age) == age < StaleSeconds

\* The record of a _refresh_task thread that has just been started for e; as
\* history it keeps the key the store held when trigger_refresh started it.
NewJob(e) == [e |-> e, pc |-> "check", idx |-> 0, age |-> -1, failed |-> {}, lost |-> {}, key |-> fernet,
              saved |-> << >>, hosts |-> "-", hostsArg |-> "-"]

\* A trigger_refresh without the guard of line 59.
trigger_refresh_unguarded(e) ==
    /\ \E j \in 1..MaxJobs :
          /\ Ended(j)
          /\ \A k \in 1..(j - 1) : ~Ended(k)
          /\ jobs' = [jobs EXCEPT ![j] = NewJob(e)]
    /\ lastTrigger' = Upsert(lastTrigger, e, now)

\* trigger_refresh(vc_id): nothing on a locked store or an unknown id; else the
\* timestamp and the thread start (in the lowest free slot).
trigger_refresh(e) ==
    IF ~isUnlocked \/ e \notin DOMAIN conns THEN UNCHANGED <<jobs, lastTrigger>>
    ELSE /\ \E j \in 1..MaxJobs :
               /\ Ended(j)
               /\ \A k \in 1..(j - 1) : ~Ended(k)
               /\ jobs' = [jobs EXCEPT ![j] = NewJob(e)]
         /\ lastTrigger' = Upsert(lastTrigger, e, now)

\* A call of trigger_refresh from any caller (POST /refresh/{vc_id}, the
\* scheduler, connect_all, the snapshot and service operations).
TriggerRefresh(e) ==
    /\ trigger_refresh(e)
    /\ UNCHANGED <<cacheVars, clockVars, purgePc, extVars, syncVars, cfgVars, connVars, procVars, conns, histVars>>

\* _refresh_task lines 70-73: read the status, return if a young REFRESHING.
JobCheck(j) ==
    /\ jobs[j].pc = "check"
    /\ LET st == get_vcenter_status(jobs[j].e)
           age == IF st.status = "REFRESHING" THEN now - st.last_refresh ELSE -1
       IN jobs' = [jobs EXCEPT ![j].age = age,
                               ![j].pc = IF st.status = "REFRESHING" /\ IsFresh(age)
                                         THEN "suppressed" ELSE "set_refreshing"]
    /\ UNCHANGED <<cacheVars, clockVars, purgePc, extVars, syncVars, cfgVars, connVars, procVars, conns, lastTrigger, histVars>>

\* _refresh_task line 75: update_vcenter_status(..., 'REFRESHING').
JobSetRefreshing(j) ==
    /\ jobs[j].pc = "set_refreshing"
    /\ update_vcenter_status(jobs[j].e, "REFRESHING")
    /\ jobs' = [jobs EXCEPT ![j].pc = IF NextFetch(0) > Len(FetchOrder) THEN "finish" ELSE "fetch",
                            ![j].idx = NextFetch(0)]
    /\ UNCHANGED <<clockVars, purgePc, extVars, syncVars, cfgVars, connVars, procVars, conns, lastTrigger, histVars>>

\* What a get_<category> call can meet once it is past its content test: an
\* answer, a remote error that leaves the session usable, or the loss of the
\* connection to the endpoint.
FetchOutcomes == {"ok", "remote_error", "connection_lost"}

\* The outcomes on which a get_<category> call returns an empty result instead
\* of raising: every one, connection loss included.
SwallowedOutcomes == {"remote_error", "connection_lost"}

\* get_<category>(): "if not self.content: return []", and "except Exception:
\* return []" around the whole body; `v` is what the endpoint answers.
get_category(e, outcome, v) ==
    IF HasContent(e) /\ outcome \notin SwallowedOutcomes THEN v ELSE EmptyResult

\* A get_vms_speed call that is given no host list.
vms_argument_none(hosts) == "-"

\* _refresh_task line 83: conn.get_vms_speed(hosts) is given the list that
\* line 79 bound to `hosts` in this cycle.
vms_argument(hosts) == hosts

\* _refresh_task lines 78-100, one category: conn.get_<category>() and
\* save_<category>.  The job record keeps, as history, the categories whose
\* fetch did not answer in this cycle, those that lost the connection, the
\* save_<category> calls of the cycle in the order they were made, the local
\* `hosts` and the host list the VM fetch was given.
JobFetch(j, outcome, v) ==
    /\ jobs[j].pc = "fetch"
    /\ LET e == jobs[j].e
           c == FetchOrder[jobs[j].idx]
           answered == HasContent(e) /\ outcome = "ok"
           got == get_category(e, outcome, v)
       IN /\ save_category(c, e, got)
          /\ jobs' = [jobs EXCEPT ![j].pc = IF NextFetch(jobs[j].idx) > Len(FetchOrder)
                                            THEN "finish" ELSE "fetch",
                                  ![j].idx = NextFetch(jobs[j].idx),
                                  ![j].saved = Append(@, c),
                                  ![j].hosts = IF c = "hosts" THEN got ELSE @,
                                  ![j].hostsArg = IF c = "vms" THEN vms_argument(jobs[j].hosts) ELSE @,
                                  ![j].failed = IF answered THEN @ ELSE @ \cup {c},
                                  ![j].lost = IF HasContent(e) /\ outcome = "connection_lost"
                                              THEN @ \cup {c} ELSE @]
    /\ UNCHANGED <<clockVars, purgePc, extVars, syncVars, cfgVars, connVars, procVars, conns, lastTrigger, histVars>>

\* _refresh_task lines 102-119: conn.content.about raises when content is None
\* and the except branch stores ERROR; otherwise READY with the metadata.
JobFinish(j) ==
    /\ jobs[j].pc = "finish"
    /\ update_vcenter_status(jobs[j].e, IF HasContent(jobs[j].e) THEN "READY" ELSE "ERROR")
    /\ jobs' = [jobs EXCEPT ![j] = IdleJob]
    /\ UNCHANGED <<clockVars, purgePc, extVars, syncVars, cfgVars, connVars, procVars, conns, lastTrigger, histVars>>

\* A connect() on one connection, outside connect_all's loop bookkeeping.
ConnConnect(e, outcome) ==
    /\ e \in DOMAIN conns
    /\ conns' = [conns EXCEPT ![e] = connect(conns[e], outcome)]
    /\ conns' # conns
    /\ UNCHANGED <<cacheVars, clockVars, purgePc, extVars, syncVars, cfgVars, connVars, procVars, lastTrigger, jobs, histVars>>

\* A disconnect() on one connection.
ConnDisconnect(e) ==
    /\ e \in DOMAIN conns
    /\ conns[e].si
    /\ conns' = [conns EXCEPT ![e] = disconnect(conns[e])]
    /\ UNCHANGED <<cacheVars, clockVars, purgePc, extVars, syncVars, cfgVars, connVars, procVars, lastTrigger, jobs, histVars>>

\* The clock advances.
Tick ==
    /\ ticks < MaxTicks
    /\ now' = now + TickStep(ticks + 1)
    /\ ticks' = ticks + 1
    /\ UNCHANGED <<cacheVars, purgePc, extVars, syncVars, cfgVars, connVars, procVars, mgrVars, histVars>>

\* ------------------------------------------------------------- connect_all

\* An id that no configuration carries.
UnknownId == "vcX"

\* The ids a caller can put into selected_ids.
SelectableIds == Endpoints \cup {UnknownId}

\* The lists a caller passes as selected_ids (None and [] are both << >>).
SelectedLists == UNION {[1..n -> SelectableIds] : n \in 0..MaxSelected}

\* list(self.connections.keys())
ConnectionIds == connOrder

\* connect_all line 130: the ids the loop runs over.
target_ids(selected) == IF Len(selected) > 0 THEN selected ELSE ConnectionIds

\* How often id e occurs among the first n elements of a list.
Occurrences(seq, n, e) == Cardinality({i \in 1..n : i <= Len(seq) /\ seq[i] = e})

\* A connect_all call that has not begun.
NewCall(selected, password) ==
    [pc |-> "idle", selected |-> selected, password |-> password, idx |-> 0,
     results |-> EmptyDict, attempts |-> [e \in Endpoints |-> 0], derived |-> "n/a"]

\* A connect_all that goes on to start_worker whatever derive_key returned.
after_derive_ignored(ok) == "start_worker"

\* connect_all line 128: "if not derive_key(password): return {}".
after_derive(ok) == IF ok THEN "start_worker" ELSE "done"

\* A loop that stops at the first failed connect.
loop_aborts_on_failure(idx, n, success) == IF success THEN idx + 1 ELSE n + 1

\* connect_all line 132: the for loop moves on to the next id after every body.
loop_next(idx, n, success) == idx + 1

\* A loop body that triggers a refresh whatever connect returned.
after_connect_always_triggers(success) == "trigger"

\* connect_all line 140: "if success: self.trigger_refresh(vid)".
after_connect(success) == IF success THEN "trigger" ELSE "next"

\* The call after the loop body for position c.idx has run.
Advance(c, success) ==
    LET n == Len(target_ids(c.selected))
        i == loop_next(c.idx, n, success)
    IN [c EXCEPT !.idx = i, !.pc = IF i > n THEN "done" ELSE "connect"]

\* A worker thread that was never started.
NoWorker == [pc |-> "none", idx |-> 0, t |-> 0, e |-> "-", n |-> 0]

\* start_worker()
start_worker ==
    IF isUnlocked /\ worker.pc \in {"none", "exited"}
    THEN /\ stopEvent' = FALSE
         /\ worker' = [NoWorker EXCEPT !.pc = "top"]
    ELSE UNCHANGED <<stopEvent, worker>>

\* A disconnect_all call that has not begun.
NoDisconnect == [pc |-> "idle", idx |-> 0]

\* connect_all lines 127-128: the unlock check and derive_key.
ConnectAllUnlock ==
    /\ connectCall.pc = "idle"
    /\ disconnectCall.pc \in {"idle", "done"}
    /\ IF isUnlocked
       THEN /\ connectCall' = [connectCall EXCEPT !.pc = after_derive(TRUE)]
            /\ UNCHANGED <<cacheVars, histVars>>
       ELSE IF connectCall.password \in Passwords
       THEN /\ derive_key(connectCall.password)
            /\ RecordUnlock(connectCall.password)
            /\ connectCall' = [connectCall EXCEPT !.pc = after_derive(TRUE), !.derived = "ok"]
       ELSE /\ derive_key_fails(connectCall.password)
            /\ lockedWrite' = FALSE
            /\ UNCHANGED <<lockKey, phase, lastRead>>
            /\ connectCall' = [connectCall EXCEPT !.pc = after_derive(FALSE), !.derived = "failed"]
    /\ UNCHANGED <<clockVars, purgePc, extVars, syncVars, cfgVars, connVars, mgrVars, worker, stopEvent, disconnectCall>>

\* connect_all lines 129-131: start_worker(), target_ids, results = {}.
ConnectAllStartWorker ==
    /\ connectCall.pc = "start_worker"
    /\ start_worker
    /\ connectCall' = [connectCall EXCEPT
                          !.idx = 1,
                          !.pc = IF Len(target_ids(connectCall.selected)) = 0 THEN "done" ELSE "connect"]
    /\ UNCHANGED <<cacheVars, histVars, clockVars, purgePc, extVars, syncVars, cfgVars, connVars, mgrVars, disconnectCall>>

\* connect_all lines 132-139: one loop body up to the results entry.
ConnectAllConnect(outcome) ==
    /\ connectCall.pc = "connect"
    /\ LET vid == target_ids(connectCall.selected)[connectCall.idx]
           success == connect_success(outcome)
       IN IF vid \in DOMAIN conns
          THEN /\ conns' = [conns EXCEPT ![vid] = connect(conns[vid], outcome)]
               /\ LET c == [connectCall EXCEPT !.results = Upsert(connectCall.results, vid, success),
                                               !.attempts[vid] = @ + 1]
                  IN connectCall' = IF after_connect(success) = "trigger"
                                    THEN [c EXCEPT !.pc = "trigger"]
                                    ELSE Advance(c, success)
          ELSE /\ outcome = "ok"
               /\ connectCall' = Advance(connectCall, TRUE)
               /\ UNCHANGED conns
    /\ UNCHANGED <<cacheVars, histVars, clockVars, purgePc, extVars, syncVars, cfgVars, connVars, lastTrigger, jobs,
                   worker, stopEvent, disconnectCall>>

\* connect_all line 141: trigger_refresh(vid).
ConnectAllTrigger ==
    /\ connectCall.pc = "trigger"
    /\ trigger_refresh(target_ids(connectCall.selected)[connectCall.idx])
    /\ connectCall' = Advance(connectCall, connectCall.results[target_ids(connectCall.selected)[connectCall.idx]])
    /\ UNCHANGED <<cacheVars, histVars, clockVars, purgePc, extVars, syncVars, cfgVars, connVars, conns,
                   worker, stopEvent, disconnectCall>>

\* ------------------------------------------------------------- _worker_loop

\* conn.config.refresh_interval or self.global_refresh_interval, with no
\* per-endpoint override configured.
interval(e) == RefreshInterval

\* The vc_id the worker's for loop has bound.
WorkerId == worker.e

\* The conn the worker's for loop has bound: the object of the map, or, once
\* delete_vcenter has popped and disconnected it, an object with no session.
WorkerConn == IF WorkerId \in DOMAIN conns THEN conns[WorkerId] ELSE NewConnection

\* _worker_loop line 43: "while not self._stop_event.is_set()".
WorkerTop ==
    /\ worker.pc = "top"
    /\ worker' = [worker EXCEPT !.pc = IF stopEvent THEN "exited" ELSE "check"]
    /\ UNCHANGED <<cacheVars, histVars, clockVars, purgePc, extVars, syncVars, cfgVars, connVars, mgrVars,
                   connectCall, stopEvent, disconnectCall>>

\* A loop without the "if not self.cache.is_unlocked(): break" line.
after_check_ignores_lock(unlocked) == "scan"

\* _worker_loop line 45: "if not self.cache.is_unlocked(): break".
after_check(unlocked) == IF unlocked THEN "scan" ELSE "exited"

\* _worker_loop lines 45-46: break on a locked store, else read the clock.
WorkerCheck ==
    /\ worker.pc = "check"
    /\ worker' = IF after_check(isUnlocked) = "exited" THEN [worker EXCEPT !.pc = "exited"]
                 ELSE [pc |-> "scan", idx |-> 1, t |-> now, e |-> "-", n |-> Len(ConnectionIds)]
    /\ UNCHANGED <<cacheVars, histVars, clockVars, purgePc, extVars, syncVars, cfgVars, connVars, mgrVars,
                   connectCall, stopEvent, disconnectCall>>

\* A loop whose thread ends on an exception raised inside a tick.
after_tick_error_ends == "exited"

\* _worker_loop lines 52-53: "except Exception" inside the while logs the
\* error, and the thread goes on to the sleep of lines 54-56.
after_tick_error == "sleep"

\* _worker_loop lines 47-49 and 52-53: the next connection and its due test.
\* The dict iterator raises RuntimeError when the map changed size since the
\* loop began, and line 49 raises KeyError for an id without a trigger time;
\* "except Exception" logs either and the tick ends.
WorkerScan ==
    /\ worker.pc = "scan"
    /\ worker' = IF Len(ConnectionIds) # worker.n THEN [worker EXCEPT !.pc = after_tick_error, !.e = "-"]
                 ELSE IF worker.idx > Len(ConnectionIds) THEN [worker EXCEPT !.pc = "sleep", !.e = "-"]
                 ELSE LET vc_id == ConnectionIds[worker.idx]
                      IN IF vc_id \notin DOMAIN lastTrigger
                         THEN [worker EXCEPT !.pc = after_tick_error, !.e = "-"]
                         ELSE IF worker.t - lastTrigger[vc_id] >= interval(vc_id)
                         THEN [worker EXCEPT !.pc = "probe", !.e = vc_id]
                         ELSE [worker EXCEPT !.idx = @ + 1]
    /\ UNCHANGED <<cacheVars, histVars, clockVars, purgePc, extVars, syncVars, cfgVars, connVars, mgrVars,
                   connectCall, stopEvent, disconnectCall>>

\* _worker_loop line 50: conn.is_alive().
WorkerProbe(answers) ==
    /\ worker.pc = "probe"
    /\ worker' = IF is_alive(WorkerConn, answers)
                 THEN [worker EXCEPT !.pc = "trigger"]
                 ELSE [worker EXCEPT !.pc = "scan", !.idx = @ + 1, !.e = "-"]
    /\ UNCHANGED <<cacheVars, histVars, clockVars, purgePc, extVars, syncVars, cfgVars, connVars, mgrVars,
                   connectCall, stopEvent, disconnectCall>>

\* _worker_loop line 51: trigger_refresh(vc_id).
WorkerTrigger ==
    /\ worker.pc = "trigger"
    /\ trigger_refresh(WorkerId)
    /\ worker' = [worker EXCEPT !.pc = "scan", !.idx = @ + 1, !.e = "-"]
    /\ UNCHANGED <<cacheVars, histVars, clockVars, purgePc, extVars, syncVars, cfgVars, connVars, conns,
                   connectCall, stopEvent, disconnectCall>>

\* _worker_loop line 51 when trigger_refresh raises: line 61 has stored the
\* trigger time and the start of the job thread at line 62 fails (no thread
\* can be started); the except of line 52 catches it.
WorkerTriggerFails ==
    /\ worker.pc = "trigger"
    /\ isUnlocked
    /\ WorkerId \in DOMAIN conns
    /\ lastTrigger' = Upsert(lastTrigger, WorkerId, now)
    /\ worker' = [worker EXCEPT !.pc = after_tick_error, !.e = "-"]
    /\ UNCHANGED <<cacheVars, histVars, clockVars, purgePc, extVars, syncVars, cfgVars, connVars, conns, jobs,
                   connectCall, stopEvent, disconnectCall>>

\* _worker_loop lines 54-56: the sleep of up to one second, back to the top.
WorkerSleep ==
    /\ worker.pc = "sleep"
    /\ worker' = [worker EXCEPT !.pc = "top", !.idx = 0, !.n = 0]
    /\ UNCHANGED <<cacheVars, histVars, clockVars, purgePc, extVars, syncVars, cfgVars, connVars, mgrVars,
                   connectCall, stopEvent, disconnectCall>>

\* ------------------------------------------------------------- disconnect_all

\* stop_worker lines 36-37: set the event; join only a thread that was started.
DisconnectAllStop ==
    /\ disconnectCall.pc = "idle"
    /\ connectCall.pc \in {"idle", "done"}
    /\ stopEvent' = TRUE
    /\ disconnectCall' = [disconnectCall EXCEPT !.pc = IF worker.pc = "none" THEN "lock" ELSE "join"]
    /\ UNCHANGED <<cacheVars, histVars, clockVars, purgePc, extVars, syncVars, cfgVars, connVars, mgrVars, connectCall, worker>>

\* stop_worker line 38: join(timeout=2) returns when the thread has ended, or
\* after two seconds while the thread is still inside a si.CurrentTime() call.
DisconnectAllJoin ==
    /\ disconnectCall.pc = "join"
    /\ \/ worker.pc = "exited"
       \/ worker.pc = "probe" /\ WorkerConn.si
    /\ disconnectCall' = [disconnectCall EXCEPT !.pc = "lock"]
    /\ UNCHANGED <<cacheVars, histVars, clockVars, purgePc, extVars, syncVars, cfgVars, connVars, mgrVars,
                   connectCall, worker, stopEvent>>

\* disconnect_all line 146: cache.lock().
DisconnectAllLock ==
    /\ disconnectCall.pc = "lock"
    /\ lock
    /\ RecordLock
    /\ disconnectCall' = [pc |-> IF Len(ConnectionIds) = 0 THEN "done" ELSE "disconnect", idx |-> 1]
    /\ UNCHANGED <<clockVars, purgePc, extVars, syncVars, cfgVars, connVars, mgrVars, connectCall, worker, stopEvent>>

\* disconnect_all line 147: one conn.disconnect() of the loop.
DisconnectAllDisconnect ==
    /\ disconnectCall.pc = "disconnect"
    /\ conns' = [conns EXCEPT ![ConnectionIds[disconnectCall.idx]] = disconnect(@)]
    /\ disconnectCall' = [disconnectCall EXCEPT
                             !.idx = @ + 1,
                             !.pc = IF disconnectCall.idx + 1 > Len(ConnectionIds) THEN "done" ELSE "disconnect"]
    /\ UNCHANGED <<cacheVars, histVars, clockVars, purgePc, extVars, syncVars, cfgVars, connVars, lastTrigger, jobs,
                   connectCall, worker, stopEvent>>

\* ------------------------------------------------------------- settings handlers

\* How many settings handlers one behaviour runs.
MaxChanges == 2

\* The value of VCenterConfig.enabled when the constructor is not given one.
DefaultEnabled == TRUE

\* The enabled ids once a VCenterConfig(id=e, ...) built without "enabled" has
\* been put into settings.vcenters (add_vcenter lines 37-46, update_vcenter
\* lines 136-146).
flags_after_store(en, e) == IF DefaultEnabled THEN en \cup {e} ELSE en \ {e}

\* d.pop(e)
Without(d, e) == [x \in DOMAIN d \ {e} |-> d[x]]

\* The handlers run on the event loop, as the handlers that call connect_all
\* and disconnect_all do: they never run inside one another.
HandlerMayRun ==
    /\ changes < MaxChanges
    /\ connectCall.pc \in {"idle", "done"}
    /\ disconnectCall.pc \in {"idle", "done"}

\* The connection map changes size at most once while one scan of the worker
\* is under way (the scan ends at its next iteration step when it did).
MapMayChange == worker.pc \in {"scan", "probe", "trigger"} => Len(connOrder) = worker.n

\* The id add_vcenter draws (uuid4) is new: no configuration, thread or cache
\* entry carries it.
Fresh(e) ==
    /\ e \notin configured
    /\ e \notin DOMAIN conns
    /\ e \notin DOMAIN lastTrigger
    /\ worker.e # e
    /\ \A j \in 1..MaxJobs : jobs[j].e # e
    /\ \A c \in DOMAIN data : e \notin DOMAIN data[c]

\* POST /vcenters/add
add_vcenter(e) ==
    /\ HandlerMayRun
    /\ MapMayChange
    /\ Fresh(e)
    /\ configured' = configured \cup {e}
    /\ enabled' = flags_after_store(enabled, e)
    /\ conns' = Upsert(conns, e, NewConnection)
    /\ connOrder' = Append(connOrder, e)
    /\ lastTrigger' = Upsert(lastTrigger, e, 0)
    /\ changes' = changes + 1
    /\ UNCHANGED <<cacheVars, histVars, clockVars, purgePc, extVars, syncVars, jobs, procVars, connVars>>

\* POST /vcenters/update/{vc_id}
update_vcenter(e) ==
    /\ HandlerMayRun
    /\ e \in configured
    /\ enabled' = flags_after_store(enabled, e)
    /\ IF e \in DOMAIN conns
       THEN UNCHANGED <<conns, connOrder>>
       ELSE /\ MapMayChange
            /\ conns' = Upsert(conns, e, NewConnection)
            /\ connOrder' = Append(connOrder, e)
    /\ changes' = changes + 1
    /\ UNCHANGED <<cacheVars, histVars, clockVars, purgePc, extVars, syncVars, configured, lastTrigger, jobs, procVars,
                   connVars>>

\* POST /vcenters/delete/{vc_id}
delete_vcenter(e) ==
    /\ HandlerMayRun
    /\ e \in configured
    /\ configured' = configured \ {e}
    /\ enabled' = enabled \ {e}
    /\ IF e \in DOMAIN conns
       THEN /\ MapMayChange
            /\ conns' = Without(conns, e)
            /\ connOrder' = SelectSeq(connOrder, LAMBDA x : x # e)
       ELSE UNCHANGED <<conns, connOrder>>
    /\ lastTrigger' = Without(lastTrigger, e)
    /\ changes' = changes + 1
    /\ UNCHANGED <<cacheVars, histVars, clockVars, purgePc, extVars, syncVars, jobs, procVars, connVars>>

\* POST /restore-session with no connected ids in the session: a further
\* connect_all(username, password, []) on the manager of the application.
restore_session ==
    /\ connectCall.pc = "done"
    /\ disconnectCall.pc \in {"idle", "done"}
    /\ connectCall' = NewCall(<< >>, "p1")
    /\ UNCHANGED <<cacheVars, histVars, clockVars, purgePc, extVars, syncVars, cfgVars, connVars, mgrVars,
                   worker, stopEvent, disconnectCall>>

\* The calls and threads of the two process sections at rest.
InitProcs ==
    /\ connectCall = NewCall(<< >>, "p1")
    /\ worker = NoWorker
    /\ stopEvent = FALSE
    /\ disconnectCall = NoDisconnect

\* ------------------------------------------------------------- SpecCache

\* The categories, endpoints and inputs of the cache-store specification.
CacheCats == {StatusCategory, "vms"}
CacheStatuses == Statuses

InitCache ==
    /\ isUnlocked = FALSE
    /\ fernet = NoKey
    /\ data = [c \in CacheCats |-> EmptyDict]
    /\ disk = [c \in CacheCats |-> NoFile]
    /\ now = 0
    /\ ticks = 0
    /\ purgePc = "idle"
    /\ enabled = Endpoints
    /\ configured = Endpoints
    /\ changes = 0
    /\ InitConnector
    /\ InitSync
    /\ InitExt
    /\ InitManager
    /\ InitHistory
    /\ InitProcs

NextCache ==
    \/ \E p \in Passwords : CacheUnlock(p)
    \/ CacheUnlockFails(BadPassword)
    \/ CacheLock
    \/ \E c \in DOMAIN data \ {StatusCategory}, e \in Endpoints, v \in SnapValues : CacheSave(c, e, v)
    \/ \E e \in Endpoints, s \in CacheStatuses : CacheUpdateStatus(e, s)
    \/ PurgeDelete
    \/ PurgeLock
    \/ \E c \in DOMAIN disk : DiskCorrupt(c)

SpecCache == InitCache /\ [][NextCache]_vars

\* ------------------------------------------------------------- SpecRefresh

\* The categories of the refresh specification: the status records and the
\* first two fetches of a cycle.
RefreshCats == {StatusCategory, "hosts"}

\* The configuration of the refresh specification: vcA enabled, vcB disabled.
RefreshEnabled == {"vcA"}

InitRefresh ==
    /\ isUnlocked = FALSE
    /\ fernet = NoKey
    /\ data = [c \in RefreshCats |-> EmptyDict]
    /\ disk = [c \in RefreshCats |-> NoFile]
    /\ now = 0
    /\ ticks = 0
    /\ purgePc = "idle"
    /\ enabled = RefreshEnabled
    /\ configured = Endpoints
    /\ changes = 0
    /\ InitConnector
    /\ InitSync
    /\ InitExt
    /\ InitManager
    /\ InitHistory
    /\ InitProcs

NextRefresh ==
    \/ CacheUnlock("p1")
    \/ CacheLock
    \/ \E e \in Endpoints : TriggerRefresh(e)
    \/ \E j \in 1..MaxJobs : JobCheck(j)
    \/ \E j \in 1..MaxJobs : JobSetRefreshing(j)
    \/ \E j \in 1..MaxJobs, outcome \in FetchOutcomes : JobFetch(j, outcome, "s1")
    \/ \E j \in 1..MaxJobs : JobFinish(j)
    \/ \E e \in Endpoints : ConnConnect(e, "ok")
    \/ \E e \in Endpoints : ConnDisconnect(e)
    \/ Tick

SpecRefresh == InitRefresh /\ [][NextRefresh]_vars

\* ------------------------------------------------------------- SpecConnect

\* The connect specification: one connect_all call with any selection and
\* either kind of password on a fresh manager, over a store that an earlier
\* login may have left unlocked; the jobs it triggers; and cache.lock() calls
\* from elsewhere (clear_session, purge_cache) at any moment.  The store holds
\* the status records only.
ConnectCats == {StatusCategory}

InitConnect ==
    /\ isUnlocked \in BOOLEAN
    /\ fernet = IF isUnlocked THEN "p1" ELSE NoKey
    /\ data = [c \in ConnectCats |-> EmptyDict]
    /\ disk = [c \in ConnectCats |-> NoFile]
    /\ now = RefreshInterval
    /\ ticks = 0
    /\ purgePc = "idle"
    /\ enabled = Endpoints
    /\ configured = Endpoints
    /\ changes = 0
    /\ InitConnector
    /\ InitSync
    /\ InitExt
    /\ InitManager
    /\ InitHistory
    /\ connectCall \in {NewCall(sel, p) : sel \in SelectedLists, p \in {"p1", BadPassword}}
    /\ worker = NoWorker
    /\ stopEvent = FALSE
    /\ disconnectCall = NoDisconnect

NextConnect ==
    \/ ConnectAllUnlock
    \/ ConnectAllStartWorker
    \/ \E outcome \in ConnectOutcomes : ConnectAllConnect(outcome)
    \/ ConnectAllTrigger
    \/ CacheLock
    \/ \E j \in 1..MaxJobs : JobCheck(j)
    \/ \E j \in 1..MaxJobs : JobSetRefreshing(j)
    \/ \E j \in 1..MaxJobs : JobFinish(j)

SpecConnect == InitConnect /\ [][NextConnect]_vars

\* ------------------------------------------------------------- SpecSched

\* The scheduler specification: a login (connect_all of every endpoint with a
\* good password on a locked store), the worker it starts, the jobs the two
\* trigger, and one disconnect_all call.
InitSched ==
    /\ isUnlocked = FALSE
    /\ fernet = NoKey
    /\ data = [c \in ConnectCats |-> EmptyDict]
    /\ disk = [c \in ConnectCats |-> NoFile]
    /\ now = RefreshInterval
    /\ ticks = 0
    /\ purgePc = "idle"
    /\ enabled = Endpoints
    /\ configured = Endpoints
    /\ changes = 0
    /\ InitConnector
    /\ InitSync
    /\ InitExt
    /\ InitManager
    /\ InitHistory
    /\ InitProcs

NextSched ==
    \/ ConnectAllUnlock
    \/ ConnectAllStartWorker
    \/ \E outcome \in {"ok", "session_fails"} : ConnectAllConnect(outcome)
    \/ ConnectAllTrigger
    \/ WorkerTop
    \/ WorkerCheck
    \/ WorkerScan
    \/ \E answers \in BOOLEAN : WorkerProbe(answers)
    \/ WorkerTrigger
    \/ WorkerSleep
    \/ DisconnectAllStop
    \/ DisconnectAllJoin
    \/ DisconnectAllLock
    \/ DisconnectAllDisconnect
    \/ \E j \in 1..MaxJobs : JobCheck(j)
    \/ \E j \in 1..MaxJobs : JobSetRefreshing(j)
    \/ \E j \in 1..MaxJobs : JobFinish(j)

SpecSched == InitSched /\ [][NextSched]_vars

\* ------------------------------------------------------------- SpecCycle

\* The cycle specification: every category of the store, one endpoint,
\* refresh jobs whose fetches meet any outcome, each triggered when no other
\* is in flight (two jobs in flight are the subject of
\* the refresh specification), and the connect and disconnect of the
\* endpoint's connection (connect_all, delete_vcenter, disconnect_all) at any
\* moment.
CycleCats == SnapCategories \cup {StatusCategory}

\* A trigger_refresh call that finds no job in flight.
TriggerWhenIdle(e) ==
    /\ \A j \in 1..MaxJobs : Ended(j)
    /\ TriggerRefresh(e)

InitCycle ==
    /\ isUnlocked = FALSE
    /\ fernet = NoKey
    /\ data = [c \in CycleCats |-> EmptyDict]
    /\ disk = [c \in CycleCats |-> NoFile]
    /\ now = 0
    /\ ticks = 0
    /\ purgePc = "idle"
    /\ enabled = RefreshEnabled
    /\ configured = Endpoints
    /\ changes = 0
    /\ InitConnector
    /\ InitSync
    /\ InitExt
    /\ InitManager
    /\ InitHistory
    /\ InitProcs

NextCycle ==
    \/ CacheUnlock("p1")
    \/ \E e \in RefreshEnabled : TriggerWhenIdle(e)
    \/ \E j \in 1..MaxJobs : JobCheck(j)
    \/ \E j \in 1..MaxJobs : JobSetRefreshing(j)
    \/ \E j \in 1..MaxJobs, outcome \in FetchOutcomes : JobFetch(j, outcome, "s1")
    \/ \E j \in 1..MaxJobs : JobFinish(j)
    \/ \E e \in RefreshEnabled : ConnConnect(e, "ok")
    \/ \E e \in RefreshEnabled : ConnDisconnect(e)

SpecCycle == InitCycle /\ [][NextCycle]_vars

\* ------------------------------------------------------------- SpecWorker

\* The steps of the scheduler thread and of the refresh-job threads.
WorkerNext ==
    \/ WorkerTop
    \/ WorkerCheck
    \/ WorkerScan
    \/ \E answers \in BOOLEAN : WorkerProbe(answers)
    \/ WorkerTrigger
    \/ WorkerSleep

JobNext ==
    \/ \E j \in 1..MaxJobs : JobCheck(j)
    \/ \E j \in 1..MaxJobs : JobSetRefreshing(j)
    \/ \E j \in 1..MaxJobs : JobFinish(j)

\* The worker specification: the scheduler specification plus cache.lock()
\* calls from elsewhere (clear_session, purge_cache) and the derive_key of a
\* later restore_session; the threads are scheduled fairly, and every
\* si.CurrentTime() probe returns.
NextWorker ==
    \/ ConnectAllUnlock
    \/ ConnectAllStartWorker
    \/ \E outcome \in {"ok", "session_fails"} : ConnectAllConnect(outcome)
    \/ ConnectAllTrigger
    \/ WorkerNext
    \/ DisconnectAllStop
    \/ DisconnectAllJoin
    \/ DisconnectAllLock
    \/ DisconnectAllDisconnect
    \/ CacheLock
    \/ CacheUnlock("p1")
    \/ JobNext

SpecWorker == InitSched /\ [][NextWorker]_vars /\ WF_vars(WorkerNext) /\ WF_vars(JobNext)

\* ------------------------------------------------------------- SpecConfig

\* The steps of the scheduler thread when every si.CurrentTime() probe answers.
WorkerNextAnswered ==
    \/ WorkerTop
    \/ WorkerCheck
    \/ WorkerScan
    \/ WorkerProbe(TRUE)
    \/ WorkerTrigger
    \/ WorkerSleep

\* The status file an earlier session left, written while vcB was enabled.
StaleStatusFile == EncFile("p1", [vcB |-> StatusRecord("READY", 0)])

\* The configuration specification: settings.vcenters holds vcB, disabled; a
\* login on the locked store starts the worker; endpoints are then added,
\* updated and deleted through the settings handlers, restore_session connects
\* the endpoints of the live manager, and the store may be locked from
\* elsewhere. Every probe answers.
InitConfig ==
    /\ isUnlocked = FALSE
    /\ fernet = NoKey
    /\ data = [c \in ConnectCats |-> EmptyDict]
    /\ disk = [c \in ConnectCats |-> StaleStatusFile]
    /\ now = RefreshInterval
    /\ ticks = 0
    /\ purgePc = "idle"
    /\ configured = {"vcB"}
    /\ enabled = {}
    /\ changes = 0
    /\ InitConnector
    /\ InitSync
    /\ InitExt
    /\ InitManager
    /\ InitHistory
    /\ InitProcs

NextConfig ==
    \/ ConnectAllUnlock
    \/ ConnectAllStartWorker
    \/ \E outcome \in {"ok", "session_fails"} : ConnectAllConnect(outcome)
    \/ ConnectAllTrigger
    \/ restore_session
    \/ \E e \in Endpoints : add_vcenter(e)
    \/ \E e \in Endpoints : update_vcenter(e)
    \/ \E e \in Endpoints : delete_vcenter(e)
    \/ WorkerNextAnswered
    \/ JobNext
    \/ CacheLock

SpecConfig == InitConfig /\ [][NextConfig]_vars

\* ------------------------------------------------------------- SpecConfigLive

\* The clock advances once, by the first step of the scripted clock.
TickOnce ==
    /\ ticks = 0
    /\ Tick

\* The live-configuration specification: the state after the login of the
\* configuration specification (store unlocked, worker running, vcB configured
\* and disabled, connect_all returned), then settings handlers, further
\* restore_session calls and one advance of the clock past every interval. The
\* store is never locked, the worker never stopped and no session is closed
\* other than by delete_vcenter; the threads are scheduled fairly, every
\* connect_all call runs to its end and every probe answers. The fairness of
\* the scheduler and of connect_all is strong because starting a thread never
\* blocks: a trigger that waits here for one of the MaxJobs slots gets it.
InitConfigLive ==
    /\ isUnlocked = TRUE
    /\ fernet = "p1"
    /\ data = [c \in ConnectCats |-> StaleStatusFile.content]
    /\ disk = [c \in ConnectCats |-> StaleStatusFile]
    /\ now = RefreshInterval
    /\ ticks = 0
    /\ purgePc = "idle"
    /\ configured = {"vcB"}
    /\ enabled = {}
    /\ changes = 0
    /\ InitConnector
    /\ InitSync
    /\ InitExt
    /\ InitManager
    /\ lockKey = NoKey
    /\ phase = "unlocked"
    /\ lockedWrite = FALSE
    /\ lastRead = NoRead
    /\ connectCall = [NewCall(<< >>, "p1") EXCEPT !.pc = "done", !.idx = 1, !.derived = "ok"]
    /\ worker = [NoWorker EXCEPT !.pc = "top"]
    /\ stopEvent = FALSE
    /\ disconnectCall = NoDisconnect

\* The steps of a connect_all call that has been made.
ConnectAllNext ==
    \/ ConnectAllUnlock
    \/ ConnectAllStartWorker
    \/ \E outcome \in {"ok", "session_fails"} : ConnectAllConnect(outcome)
    \/ ConnectAllTrigger

NextConfigLive ==
    \/ restore_session
    \/ ConnectAllNext
    \/ \E e \in Endpoints : add_vcenter(e)
    \/ \E e \in Endpoints : update_vcenter(e)
    \/ \E e \in Endpoints : delete_vcenter(e)
    \/ WorkerNextAnswered
    \/ JobNext
    \/ TickOnce

SpecConfigLive ==
    InitConfigLive /\ [][NextConfigLive]_vars
        /\ SF_vars(WorkerNextAnswered) /\ WF_vars(JobNext) /\ SF_vars(ConnectAllNext)

\* ------------------------------------------------------------- SpecConnector

\* The connector specification: one VCenterConnection, the calls made on it in
\* any order, and its endpoint going down, coming back and expiring sessions.
InitConnectorSpec ==
    /\ isUnlocked = FALSE
    /\ fernet = NoKey
    /\ data = [c \in ConnectCats |-> EmptyDict]
    /\ disk = [c \in ConnectCats |-> NoFile]
    /\ now = 0
    /\ ticks = 0
    /\ purgePc = "idle"
    /\ enabled = Endpoints
    /\ configured = Endpoints
    /\ changes = 0
    /\ InitConnector
    /\ InitSync
    /\ InitExt
    /\ InitManager
    /\ InitHistory
    /\ InitProcs

NextConnector ==
    \/ ConnectorConnectOk
    \/ \E outcome \in {"session_fails", "content_fails"}, x \in Raised :
          \E text \in Texts(x) : ConnectorConnectFails(outcome, x, text)
    \/ ConnectorIsAlive
    \/ ConnectorFetch
    \/ ConnectorDisconnect
    \/ \E up \in BOOLEAN : RemoteChange(up)
    \/ SessionExpires

SpecConnector == InitConnectorSpec /\ [][NextConnector]_vars

\* ------------------------------------------------------------- calls under the lock

\* A "with self._lock" that does not wait for the lock to be free.
acquire_unguarded(t) == lockHolder' = t

\* "with self._lock:", entering: the thread waits until no thread holds it.
acquire(t) ==
    /\ lockHolder = "none"
    /\ lockHolder' = t

\* "with self._lock:", leaving.
release(t) == lockHolder' = "none"

\* The frame of a step inside a store method that touches no category.
InsideFrame ==
    UNCHANGED <<cacheVars, histVars, clockVars, purgePc, extVars, cfgVars, connVars, mgrVars, procVars>>

\* What save_<c> / update_vcenter_status puts into the category.
Stored(c, v) == IF c = StatusCategory THEN StatusRecord(v, now) ELSE v

\* save_<c>(e, v) or update_vcenter_status(e, v) called by the job thread:
\* "with self._lock".
SaveEnter(c, e, v) ==
    /\ callers["job"].pc = "out"
    /\ acquire("job")
    /\ callers' = [callers EXCEPT !["job"] = [Outside EXCEPT !.op = c, !.pc = "assign", !.e = e, !.v = v]]
    /\ InsideFrame

\* "if not self._is_unlocked: return", else "self._data[c][e] = v".
SaveAssign ==
    /\ callers["job"].pc = "assign"
    /\ LET c == callers["job"].op
           e == callers["job"].e
           v == callers["job"].v
       IN IF ~isUnlocked
          THEN /\ callers' = [callers EXCEPT !["job"].pc = "release"]
               /\ UNCHANGED cacheVars
          ELSE /\ data' = [data EXCEPT ![c] = Upsert(data[c], e, Stored(c, v))]
               /\ callers' = [callers EXCEPT !["job"].pc = "write"]
               /\ UNCHANGED <<isUnlocked, fernet, disk>>
    /\ UNCHANGED <<lockHolder, clockVars, purgePc, extVars, cfgVars, connVars, mgrVars, procVars>>
    /\ RecordWrite

\* "self._save_to_disk(c)": serialise, encrypt, write the file.
SaveWrite ==
    /\ callers["job"].pc = "write"
    /\ LET c == callers["job"].op
       IN disk' = [disk EXCEPT ![c] = SaveToDisk(isUnlocked, fernet, data[c], c, disk[c])]
    /\ callers' = [callers EXCEPT !["job"].pc = "release"]
    /\ UNCHANGED <<isUnlocked, fernet, data, lockHolder, clockVars, purgePc, extVars, cfgVars, connVars,
                   mgrVars, procVars>>
    /\ RecordWrite

\* The method returns and the lock is released.
SaveRelease ==
    /\ callers["job"].pc = "release"
    /\ release("job")
    /\ callers' = [callers EXCEPT !["job"] = Outside]
    /\ InsideFrame

\* get_all_vms() called by the reader thread: "with self._lock".
ReadEnter ==
    /\ callers["reader"].pc = "out"
    /\ acquire("reader")
    /\ callers' = [callers EXCEPT !["reader"] = [Outside EXCEPT !.op = "get_all_vms", !.pc = "loop"]]
    /\ InsideFrame

\* The loop over self._data["vms"].items(): the lists of the enabled ids are
\* appended one after the other; the step is one further list, or the end of
\* the loop.
ReadLoop ==
    /\ callers["reader"].pc = "loop"
    /\ LET acc == callers["reader"].acc
           todo == (DOMAIN data["vms"] \cap enabled_vc_ids) \ callers["reader"].done
       IN IF todo = {}
          THEN callers' = [callers EXCEPT !["reader"].pc = "return"]
          ELSE LET e == CHOOSE x \in todo : TRUE
               IN callers' = [callers EXCEPT
                     !["reader"].acc = acc \o Records("vms", e, data["vms"][e]),
                     !["reader"].done = @ \cup {e}]
    /\ UNCHANGED lockHolder
    /\ InsideFrame

\* "return all_vms": the lock is released.
ReadReturn ==
    /\ callers["reader"].pc = "return"
    /\ release("reader")
    /\ callers' = [callers EXCEPT !["reader"] = Outside]
    /\ InsideFrame

\* get_cached_stats() called by the stats thread: "with self._lock".
StatsEnter ==
    /\ callers["stats"].pc = "out"
    /\ acquire("stats")
    /\ callers' = [callers EXCEPT !["stats"] =
                      [Outside EXCEPT !.op = "get_cached_stats", !.pc = "vms",
                                      !.acc = [vms |-> << >>, hosts |-> << >>, alerts |-> << >>]]]
    /\ InsideFrame

\* One of the three gathering loops of lines 233-236.
StatsGather ==
    /\ callers["stats"].pc \in {"vms", "hosts", "alerts"}
    /\ LET c == callers["stats"].pc
       IN callers' = [callers EXCEPT
             !["stats"].acc = [@ EXCEPT ![c] = gather(c)],
             !["stats"].pc = CASE c = "vms" -> "hosts" [] c = "hosts" -> "alerts" [] OTHER -> "compute"]
    /\ UNCHANGED lockHolder
    /\ InsideFrame

\* Lines 238-291: the totals, and the breakdown from the status records.
StatsCompute ==
    /\ callers["stats"].pc = "compute"
    /\ LET acc == callers["stats"].acc
       IN callers' = [callers EXCEPT !["stats"].acc = stats_of(acc.vms, acc.hosts, acc.alerts),
                                     !["stats"].pc = "return"]
    /\ UNCHANGED lockHolder
    /\ InsideFrame

\* The "return" of get_cached_stats: the lock is released.
StatsReturn ==
    /\ callers["stats"].pc = "return"
    /\ release("stats")
    /\ callers' = [callers EXCEPT !["stats"] = Outside]
    /\ InsideFrame

\* ------------------------------------------------------------- read paths

\* max(0, int(interval - (now - last_t))) if last_t > 0 else 0
seconds_until(e) ==
    LET last_t == IF e \in DOMAIN lastTrigger THEN lastTrigger[e] ELSE 0
        left == interval(e) - (now - last_t)
    IN IF last_t > 0 THEN (IF left > 0 THEN left ELSE 0) ELSE 0

\* get_connection_status(): one entry per connection, from the cached status
\* record (READY when there is none), the probe of the connection, the trigger
\* time and the store's flag.
get_connection_status(answers) ==
    [e \in DOMAIN conns |->
        [connected |-> is_alive(conns[e], answers),
         refresh_status |-> IF get_vcenter_status(e) = NoStatus THEN "READY"
                            ELSE get_vcenter_status(e).status,
         seconds_until |-> seconds_until(e),
         unlocked |-> isUnlocked]]

\* The call a read path makes, as history.
ReadCall(op, ret) == [op |-> op, seq |-> 1 - lastRead.seq, ret |-> ret]

\* A get_connection_status that starts a refresh of an endpoint it finds
\* connected.
get_connection_status_refreshing(answers) ==
    /\ lastRead' = ReadCall("get_connection_status", get_connection_status(answers))
    /\ \E e \in DOMAIN conns :
          /\ is_alive(conns[e], answers)
          /\ trigger_refresh(e)
    /\ UNCHANGED <<cacheVars, conns>>

\* A call of get_connection_status (GET /api/vcenter-status and the pages):
\* the loop reads and calls nothing that writes.
get_connection_status_call(answers) ==
    /\ lastRead' = ReadCall("get_connection_status", get_connection_status(answers))
    /\ UNCHANGED <<cacheVars, mgrVars>>

GetConnectionStatus(answers) ==
    /\ get_connection_status_call(answers)
    /\ UNCHANGED <<lockKey, phase, lockedWrite, clockVars, purgePc, extVars, syncVars, cfgVars, connVars, procVars>>

\* A call of VCenterManager.get_stats, and through it get_cached_stats.
GetStats ==
    /\ lastRead' = ReadCall("get_stats", get_stats)
    /\ UNCHANGED <<cacheVars, mgrVars, lockKey, phase, lockedWrite, clockVars, purgePc, extVars, syncVars, cfgVars,
                   connVars, procVars>>

\* A call of get_all_<c>, or of get_vcenter_status() for the status category.
GetAll(c) ==
    /\ lastRead' = ReadCall(c, get_all(c))
    /\ UNCHANGED <<cacheVars, mgrVars, lockKey, phase, lockedWrite, clockVars, purgePc, extVars, syncVars, cfgVars,
                   connVars, procVars>>

\* ------------------------------------------------------------- SpecStats

\* The categories get_cached_stats reads.
StatsCats == {StatusCategory, "hosts", "vms", "alerts"}

\* What an endpoint answers to a fetch: a list with records, or the empty
\* list of an endpoint that has none.
StatsValues == SnapValues \cup {EmptyResult}

\* The statistics specification: both endpoints configured and enabled; a
\* login connects them, each connect succeeding or failing; the refresh jobs
\* it triggers fetch and save hosts, VMs and alerts, every fetch answered by
\* the endpoint; an endpoint may be deleted through the settings
\* handler.  The scheduler thread that the login starts is not scheduled in
\* these behaviours (its steps are those of the worker specification).
InitStats ==
    /\ isUnlocked = FALSE
    /\ fernet = NoKey
    /\ data = [c \in StatsCats |-> EmptyDict]
    /\ disk = [c \in StatsCats |-> NoFile]
    /\ now = RefreshInterval
    /\ ticks = 0
    /\ purgePc = "idle"
    /\ enabled = Endpoints
    /\ configured = Endpoints
    /\ changes = 0
    /\ InitConnector
    /\ InitSync
    /\ InitExt
    /\ InitManager
    /\ InitHistory
    /\ InitProcs

NextStats ==
    \/ ConnectAllUnlock
    \/ ConnectAllStartWorker
    \/ \E outcome \in {"ok", "session_fails"} : ConnectAllConnect(outcome)
    \/ ConnectAllTrigger
    \/ JobNext
    \/ \E j \in 1..MaxJobs, v \in StatsValues : JobFetch(j, "ok", v)
    \/ \E e \in Endpoints : delete_vcenter(e)

SpecStats == InitStats /\ [][NextStats]_vars

\* ------------------------------------------------------------- SpecRead

\* The read specification: the login and the refresh jobs of the statistics
\* specification, every fetch answered with records, and the read paths called
\* at any moment, each probe of a connection answering or not.
NextRead ==
    \/ ConnectAllUnlock
    \/ ConnectAllStartWorker
    \/ \E outcome \in {"ok", "session_fails"} : ConnectAllConnect(outcome)
    \/ ConnectAllTrigger
    \/ JobNext
    \/ \E j \in 1..MaxJobs : JobFetch(j, "ok", "s1")
    \/ \E answers \in BOOLEAN : GetConnectionStatus(answers)
    \/ GetStats
    \/ \E c \in DOMAIN data : GetAll(c)

SpecRead == InitStats /\ [][NextRead]_vars

\* ------------------------------------------------------------- SpecLock

\* The store's lock specification: on the store a login has unlocked, a
\* refresh-job thread saves hosts, VMs, alerts and statuses of both endpoints,
\* a second thread calls get_all_vms and a third get_cached_stats; each call
\* is a sequence of steps inside "with self._lock", interleaved in any way the
\* lock allows.
LockCats == StatsCats

InitLock ==
    /\ isUnlocked = TRUE
    /\ fernet = "p1"
    /\ data = [c \in LockCats |-> EmptyDict]
    /\ disk = [c \in LockCats |-> NoFile]
    /\ now = RefreshInterval
    /\ ticks = 0
    /\ purgePc = "idle"
    /\ enabled = Endpoints
    /\ configured = Endpoints
    /\ changes = 0
    /\ InitConnector
    /\ InitSync
    /\ InitExt
    /\ InitManager
    /\ InitHistory
    /\ InitProcs

NextLock ==
    \/ \E c \in LockCats \ {StatusCategory}, e \in Endpoints, v \in {"s1", "raw"} : SaveEnter(c, e, v)
    \/ \E e \in Endpoints : SaveEnter(StatusCategory, e, "READY")
    \/ SaveAssign
    \/ SaveWrite
    \/ SaveRelease
    \/ ReadEnter
    \/ ReadLoop
    \/ ReadReturn
    \/ StatsEnter
    \/ StatsGather
    \/ StatsCompute
    \/ StatsReturn

SpecLock == InitLock /\ [][NextLock]_vars

\* ------------------------------------------------------------- claims: cache store

\* What a category file holds for someone with key `key`: its content when it
\* decrypts, nothing otherwise.
Readable(file, key) == IF Decrypts(file, key) THEN file.content ELSE EmptyDict

\* C1: whenever the store is locked (before the first derive_key, after any
\* lock()), every in-memory category is empty and every get_all accessor
\* returns an empty container; a save_* or update_vcenter_status call that
\* finds the store locked leaves it so.
C1_LockedIsEmpty ==
    ~isUnlocked =>
        /\ fernet = NoKey
        /\ \A c \in DOMAIN data : data[c] = EmptyDict /\ get_all(c) = EmptyDict

\* C1 witness: a write call has just found the store locked, after an earlier
\* session left category files on disk.
C1_Witness ==
    /\ ~isUnlocked
    /\ lockedWrite
    /\ \A c \in DOMAIN disk : disk[c].kind = "enc" /\ DOMAIN disk[c].content = Endpoints

\* C5: right after lock() followed by derive_key with the password of the
\* discarded key, with no file written in between, the memory holds for every
\* category exactly what its file held when lock() ran.
C5_RoundTrip ==
    phase = "restored" =>
        /\ isUnlocked
        /\ fernet = lockKey
        /\ \A c \in DOMAIN data : data[c] = Readable(disk[c], lockKey)

\* C5 witness: a round trip that restored both endpoints in every category.
C5_Witness ==
    /\ phase = "restored"
    /\ \A c \in DOMAIN data : DOMAIN data[c] = Endpoints
    /\ \E e \in Endpoints : data["vms"][e] = "rawstr"

\* C6: right after derive_key on a locked store the store is unlocked, each
\* category holds its file's content if that file decrypts under the new key
\* and is empty otherwise, whatever the other files do; when no file decrypts
\* (a wrong password) the memory is that of a never-unlocked store.
C6_SilentDegrade ==
    phase \in {"restored", "unlocked"} =>
        /\ isUnlocked
        /\ fernet \in Passwords
        /\ \A c \in DOMAIN data : data[c] = Readable(disk[c], fernet)
        /\ (\A c \in DOMAIN disk : ~Decrypts(disk[c], fernet))
              => data = [c \in DOMAIN data |-> EmptyDict]

\* C6 witness: one category file failed to decrypt and was dropped while
\* another one loaded.
C6_Witness ==
    /\ phase \in {"restored", "unlocked"}
    /\ \E c1, c2 \in DOMAIN data :
          /\ disk[c1].kind \in {"corrupt", "enc"}
          /\ ~Decrypts(disk[c1], fernet)
          /\ data[c1] = EmptyDict
          /\ Decrypts(disk[c2], fernet)
          /\ data[c2] # EmptyDict

\* C6 witness, second case: a wrong password, every file present and none
\* decrypting, leaves the store unlocked and empty.
C6_WitnessWrongPassword ==
    /\ phase = "unlocked"
    /\ isUnlocked
    /\ \A c \in DOMAIN disk : disk[c].kind = "enc" /\ disk[c].key # fernet
    /\ data = [c \in DOMAIN data |-> EmptyDict]

\* ------------------------------------------------------------- claims: connect_all

\* The ids the call's loop runs over, and the id its loop body is at.
CallTargets == target_ids(connectCall.selected)
CallId == CallTargets[connectCall.idx]

\* How many loop bodies of the call have made their connect.
CallBodiesRun ==
    CASE connectCall.pc = "connect" -> connectCall.idx - 1
      [] connectCall.pc = "trigger" -> connectCall.idx
      [] connectCall.pc = "done" /\ connectCall.derived # "failed" -> Len(CallTargets)
      [] OTHER -> 0

\* C7 (as the code has it): when connect_all finds the store locked and
\* derive_key fails, it returns at once with an empty result map (no entry for
\* any endpoint); no connection is attempted, the scheduler is not started, no
\* refresh is triggered and the store stays locked.
C7_DeriveFailureReturnsEmpty ==
    connectCall.derived = "failed" =>
        /\ connectCall.pc = "done"
        /\ connectCall.results = EmptyDict
        /\ \A e \in Endpoints : connectCall.attempts[e] = 0
        /\ \A e \in DOMAIN conns : conns[e] = NewConnection /\ lastTrigger[e] = 0
        /\ worker = NoWorker
        /\ \A j \in 1..MaxJobs : jobs[j] = IdleJob
        /\ ~isUnlocked

\* C7 witness: a call that named two ids has failed to derive the key.
C7_Witness == connectCall.derived = "failed" /\ Len(connectCall.selected) = 2

\* C7 as stated: after the failed derive_key the result map reports every
\* targeted endpoint as failed.
C7_DeriveFailureAllFalse ==
    connectCall.derived = "failed" =>
        \A i \in 1..Len(CallTargets) :
            CallTargets[i] \in DOMAIN conns =>
                /\ CallTargets[i] \in DOMAIN connectCall.results
                /\ connectCall.results[CallTargets[i]] = FALSE

\* C8 (as the code has it): whatever the outcomes of the connects, every loop
\* body runs: a known endpoint is attempted once for each time the target list
\* names it (exactly once when it is named once), it has an entry in the
\* result map as soon as it was attempted, and an unknown id gets no entry.
C8_EveryTargetAttempted ==
    /\ \A e \in DOMAIN conns :
          /\ connectCall.attempts[e] = Occurrences(CallTargets, CallBodiesRun, e)
          /\ e \in DOMAIN connectCall.results <=> connectCall.attempts[e] > 0
    /\ DOMAIN connectCall.results \subseteq DOMAIN conns

\* C8 witness: the call returned after a failed connect of the first target
\* and a successful one of the second.
C8_Witness ==
    /\ connectCall.pc = "done"
    /\ connectCall.selected = <<"vcB", "vcA">>
    /\ connectCall.results = [vcA |-> TRUE, vcB |-> FALSE]

\* C8 witness: an endpoint named twice was attempted twice.
C8_WitnessDuplicate ==
    /\ connectCall.pc = "done"
    /\ connectCall.selected = <<"vcA", "vcA">>
    /\ connectCall.attempts["vcA"] = 2

\* C8 as stated: when the call returns every targeted known endpoint was
\* attempted exactly once and has its entry.
C8_AttemptedExactlyOnce ==
    (connectCall.pc = "done" /\ connectCall.derived # "failed") =>
        \A i \in 1..Len(CallTargets) :
            CallTargets[i] \in DOMAIN conns =>
                /\ connectCall.attempts[CallTargets[i]] = 1
                /\ CallTargets[i] \in DOMAIN connectCall.results

\* C9 (as the code has it): a loop body goes to trigger_refresh exactly when its
\* connect succeeded, before the loop moves on or the call returns; the trigger
\* starts a refresh job for that endpoint if the store is unlocked at that
\* moment and does nothing if a lock() has intervened; no other step of
\* connect_all starts a job.
C9_RefreshPerSuccessfulConnect ==
    [][(connectCall' # connectCall) =>
          /\ connectCall.pc = "connect" =>
                (connectCall'.pc = "trigger"
                    <=> (CallId \in DOMAIN conns /\ connectCall'.results[CallId]))
          /\ connectCall.pc = "trigger" =>
                IF isUnlocked
                THEN /\ \E j \in 1..MaxJobs : Ended(j) /\ jobs' = [jobs EXCEPT ![j] = NewJob(CallId)]
                     /\ lastTrigger' = [lastTrigger EXCEPT ![CallId] = now]
                ELSE jobs' = jobs /\ lastTrigger' = lastTrigger
          /\ connectCall.pc # "trigger" => jobs' = jobs /\ lastTrigger' = lastTrigger
      ]_vars

\* C9 witness: the call returned, the failed endpoint has no job and no trigger
\* time, the connected one has its job waiting.
C9_Witness ==
    /\ connectCall.pc = "done"
    /\ connectCall.results = [vcA |-> FALSE, vcB |-> TRUE]
    /\ lastTrigger["vcA"] = 0
    /\ \E j \in 1..MaxJobs : jobs[j] = NewJob("vcB")
    /\ \A j \in 1..MaxJobs : jobs[j].e # "vcA"

\* C9 witness: the call returned with a successful connect whose trigger found
\* the store locked and started nothing.
C9_WitnessLocked ==
    /\ connectCall.pc = "done"
    /\ "vcA" \in DOMAIN connectCall.results /\ connectCall.results["vcA"]
    /\ conns["vcA"].si
    /\ lastTrigger["vcA"] = 0
    /\ ~isUnlocked

\* C9 as stated: the trigger after a successful connect starts a refresh job,
\* a concurrent lock() notwithstanding.
C9_RefreshAlsoUnderLock ==
    [][(connectCall.pc = "trigger" /\ connectCall' # connectCall) =>
          \E j \in 1..MaxJobs : jobs'[j] = NewJob(CallId) /\ jobs[j] # jobs'[j]
      ]_vars

\* ------------------------------------------------------------- claims: disconnect_all

\* C10: disconnect_all stops the scheduler, then locks, then disconnects; once
\* its stop step has returned the worker completes no liveness probe and runs
\* no refresh trigger while the lock and disconnect steps are under way; and
\* when it returns the store is locked and no connection has a session.
C10_SchedulerQuietAfterStop ==
    [][/\ (disconnectCall.pc \in {"lock", "disconnect"} /\ worker.pc \in {"probe", "trigger"})
            => worker' = worker
       /\ (disconnectCall.pc # "done" /\ disconnectCall'.pc = "done")
            => (~isUnlocked' /\ \A e \in DOMAIN conns : ~conns'[e].si)
      ]_vars

\* C10, the part about the state at the return alone.
C10_LockedAndDisconnectedAtReturn ==
    [][(disconnectCall.pc # "done" /\ disconnectCall'.pc = "done")
            => (~isUnlocked' /\ \A e \in DOMAIN conns : ~conns'[e].si)
      ]_vars

\* ------------------------------------------------------------- claims: scheduler

\* C12: a trigger by the scheduler starts a job for an endpoint only if, at the
\* moment of that trigger, at least the endpoint's interval has passed since
\* its most recent trigger from any source.
C12_SchedulerDebounce ==
    [][(worker.pc = "trigger" /\ worker' # worker /\ jobs' # jobs)
            => now - lastTrigger[WorkerId] >= interval(WorkerId)
      ]_vars

\* The scheduler thread is alive / is inside the endpoint scan of a tick.
WorkerAlive == worker.pc \notin {"none", "exited"}
WorkerScanning == worker.pc \in {"scan", "probe", "trigger"}

\* C14 (as the code has it): after a stop request the thread eventually exits;
\* it tests the store at the start of every tick, exits when it finds it
\* locked and starts the scan of that tick only when it finds it unlocked, so
\* that it eventually exits if the store stays locked; a scan under way when
\* the store is locked runs on, but starts no job.
C14_WorkerExits ==
    /\ (stopEvent /\ WorkerAlive) ~> ~WorkerAlive
    /\ <>[](~isUnlocked) => <>[](~WorkerAlive)
    /\ [][(worker' # worker) =>
            /\ worker.pc = "check" => worker'.pc = IF isUnlocked THEN "scan" ELSE "exited"
            /\ (~WorkerScanning /\ WorkerScanning') => (worker.pc = "check" /\ isUnlocked)
            /\ ~isUnlocked => jobs' = jobs /\ lastTrigger' = lastTrigger
         ]_vars

\* C14 witness: the thread has exited on finding the store locked, with no
\* stop request made.
C14_Witness == worker.pc = "exited" /\ ~stopEvent /\ ~isUnlocked

\* C14 witness: the thread has exited after a stop request that found it
\* inside a scan.
C14_WitnessStop == worker.pc = "exited" /\ stopEvent /\ disconnectCall.pc = "join"

\* C14, the exit on a lock alone: once the store is locked the thread
\* eventually exits, a later unlock notwithstanding.
C14_ExitsOnceLocked == (~isUnlocked /\ WorkerAlive) ~> ~WorkerAlive

\* C14 as stated: once a stop is requested or the store is locked the thread
\* eventually exits, and it is never inside a scan while the store is locked.
C14_ExitsOnceLockedOrStopped ==
    /\ ((stopEvent \/ ~isUnlocked) /\ WorkerAlive) ~> ~WorkerAlive
    /\ [](WorkerScanning => isUnlocked)

\* C15: once stop_worker has set the stop signal, no step of the scheduler
\* thread starts a refresh job, the rest of the scan under way included.
C15_NoNewJobAfterStop ==
    [][(stopEvent /\ worker' # worker) => jobs' = jobs]_vars

\* ------------------------------------------------------------- claims: refresh cycles

\* The status record of endpoint e in a category dict of status records.
StatusIn(d, e) == IF e \in DOMAIN d THEN d[e] ELSE NoStatus

\* C2: for any endpoint at most one refresh cycle is in flight at a time: two
\* jobs of the same endpoint are past the duplicate-trigger check together only
\* if one of them found a REFRESHING status at least 300 s old.
C2_OneCycleInFlight ==
    \A i, j \in 1..MaxJobs :
        (i # j /\ Running(i) /\ Running(j) /\ jobs[i].e = jobs[j].e)
            => (jobs[i].age >= StaleSeconds \/ jobs[j].age >= StaleSeconds)

\* C3: a job that finds its endpoint REFRESHING returns without writing exactly
\* when that status is less than 300 s old; otherwise it goes on to store
\* REFRESHING with a fresh timestamp (the store permitting) and to the fetch
\* steps; a suppressed job never fetches.
C3_StalenessGate ==
    [][\A j \in 1..MaxJobs :
        /\ (jobs[j].pc = "check" /\ jobs'[j].pc # "check") =>
              LET st == StatusIn(data[StatusCategory], jobs[j].e)
              IN IF st.status = "REFRESHING" /\ now - st.last_refresh < StaleSeconds
                 THEN jobs'[j].pc = "suppressed" /\ data' = data /\ disk' = disk
                 ELSE jobs'[j].pc = "set_refreshing"
        /\ (jobs[j].pc = "set_refreshing" /\ jobs'[j].pc # "set_refreshing") =>
              /\ jobs'[j].pc = "fetch"
              /\ isUnlocked =>
                    StatusIn(data'[StatusCategory], jobs[j].e) = StatusRecord("REFRESHING", now)
        /\ jobs[j].pc = "suppressed" => jobs'[j].pc \in {"suppressed", "check"}
      ]_vars

\* C3 witness: a job found a REFRESHING status exactly 300 s old and is about
\* to store REFRESHING afresh.
C3_Witness ==
    \E j \in 1..MaxJobs : jobs[j].pc = "set_refreshing" /\ jobs[j].age = StaleSeconds

\* C3 witness, the other side of the boundary: a job was suppressed by a
\* REFRESHING status 299 s old.
C3_WitnessSuppressed ==
    \E j \in 1..MaxJobs : jobs[j].pc = "suppressed" /\ jobs[j].age = StaleSeconds - 1

\* C4: every change of an endpoint's status record made on the unlocked store
\* follows READY -> REFRESHING -> {READY, ERROR}: REFRESHING is entered only
\* from READY (an endpoint with no record yet counts as READY) or from a
\* REFRESHING at least 300 s old, READY and ERROR only from REFRESHING.
C4_StateMachine ==
    [][\A e \in Endpoints :
        LET old == StatusIn(data[StatusCategory], e)
            new == StatusIn(data'[StatusCategory], e)
        IN (isUnlocked /\ isUnlocked' /\ new # old) =>
              /\ new.status = "REFRESHING" =>
                    \/ old.status \in {"None", "READY"}
                    \/ old.status = "REFRESHING" /\ now - old.last_refresh >= StaleSeconds
              /\ new.status \in {"READY", "ERROR"} => old.status = "REFRESHING"
      ]_vars

\* ------------------------------------------------------------- claims: fetch steps

\* The step is the return of job j's _refresh_task after its last status write.
CycleEnds(j) == jobs[j].pc = "finish" /\ jobs'[j].pc = "idle"

\* The step is job j's fetch and save of category c.
FetchStep(j, c) ==
    /\ jobs[j].pc = "fetch"
    /\ jobs'[j] # jobs[j]
    /\ FetchOrder[jobs[j].idx] = c

\* The inventory categories.
InventoryCats == {"hosts", "vms"}

\* C17: a cycle whose alerts fetch fails goes on to the networks step, and,
\* when its hosts and VMs fetches had answered, ends with the two snapshots
\* stored and the status READY.
C17_AlertsFailureIsolated ==
    [][\A j \in 1..MaxJobs :
        /\ FetchStep(j, "alerts") =>
              (jobs'[j].pc = "fetch" /\ FetchOrder[jobs'[j].idx] = "networks")
        /\ (CycleEnds(j) /\ isUnlocked /\ "alerts" \in jobs[j].failed
                /\ jobs[j].failed \cap InventoryCats = {}) =>
              /\ StatusIn(data'[StatusCategory], jobs[j].e).status = "READY"
              /\ \A c \in InventoryCats : jobs[j].e \in DOMAIN data'[c]
      ]_vars

\* C18: a cycle ends with the status ERROR only if its hosts or its VMs fetch
\* failed.
C18_ErrorOnlyFromInventory ==
    [][\A j \in 1..MaxJobs :
        (CycleEnds(j) /\ isUnlocked
            /\ StatusIn(data'[StatusCategory], jobs[j].e).status = "ERROR")
          => jobs[j].failed \cap InventoryCats # {}
      ]_vars

\* C19: a cycle in which a fetch lost the connection to the endpoint ends with
\* the status ERROR.
C19_ConnectionLossGivesError ==
    [][\A j \in 1..MaxJobs :
        (CycleEnds(j) /\ isUnlocked /\ jobs[j].lost # {})
          => StatusIn(data'[StatusCategory], jobs[j].e).status = "ERROR"
      ]_vars

\* C20: a fetch that fails leaves the snapshot cached for its endpoint and
\* category as it was.
C20_FailedFetchKeepsSnapshot ==
    [][\A j \in 1..MaxJobs, c \in SnapCategories :
        (FetchStep(j, c) /\ c \in jobs'[j].failed /\ jobs[j].e \in DOMAIN data[c])
          => data'[c][jobs[j].e] = data[c][jobs[j].e]
      ]_vars

\* ------------------------------------------------------------- claims: trigger_refresh

\* The step is a call trigger_refresh(e) by the scheduler or by connect_all.
TriggerCall(e) ==
    \/ worker.pc = "trigger" /\ worker' # worker /\ WorkerId = e
    \/ /\ connectCall.pc = "trigger"
       /\ connectCall' # connectCall
       /\ target_ids(connectCall.selected)[connectCall.idx] = e

\* C11: a trigger_refresh(e) that finds the store locked or e not in the
\* connection map starts no job and leaves the trigger times, the cache and
\* the files as they are; any other records the time of the call as e's
\* trigger time in the step that starts the job, whose first step has not run.
C11_TriggerRefreshContract ==
    [][\A e \in Endpoints :
        TriggerCall(e) =>
            IF ~isUnlocked \/ e \notin DOMAIN conns
            THEN jobs' = jobs /\ lastTrigger' = lastTrigger /\ data' = data /\ disk' = disk
            ELSE /\ e \in DOMAIN lastTrigger' /\ lastTrigger'[e] = now
                 /\ \E j \in 1..MaxJobs : Ended(j) /\ jobs'[j] = NewJob(e)
                 /\ data' = data /\ disk' = disk
      ]_vars

\* C11 witness: connect_all connected vcA and went past its trigger, which
\* found the store locked: vcA has the trigger time add_vcenter gave it and
\* no job.
C11_Witness ==
    /\ ~isUnlocked
    /\ connectCall.pc \in {"connect", "done"}
    /\ \E i \in 1..Len(connOrder) :
          /\ connOrder[i] = "vcA"
          /\ i < connectCall.idx
    /\ "vcA" \in DOMAIN connectCall.results /\ connectCall.results["vcA"]
    /\ lastTrigger["vcA"] = 0
    /\ \A j \in 1..MaxJobs : jobs[j].e # "vcA"

\* C11 witness: the scheduler is about to call trigger_refresh for an id that
\* delete_vcenter has taken out of the connection map.
C11_WitnessUnknown ==
    /\ isUnlocked
    /\ worker.pc = "trigger"
    /\ WorkerId \notin DOMAIN conns

\* C11 witness: a trigger has recorded its time and the job it started has
\* not taken a step.
C11_WitnessRecorded ==
    \E e \in DOMAIN lastTrigger :
        /\ lastTrigger[e] = now
        /\ \E j \in 1..MaxJobs : jobs[j] = NewJob(e)

\* ------------------------------------------------------------- claims: settings handlers

\* The configured endpoints whose configuration is not enabled.
Disabled == configured \ enabled

DueForScheduler(e) ==
    /\ worker.pc \notin {"none", "exited"}
    /\ ~stopEvent
    /\ isUnlocked
    /\ e \in DOMAIN conns /\ conns[e].si
    /\ e \in DOMAIN lastTrigger
    /\ now - lastTrigger[e] >= interval(e)

\* C13: an endpoint that is due for the scheduler does not stay so for ever:
\* it is triggered (or the scheduler stops, the store is locked, or the
\* session ends).
C13_DueEventuallyTriggered ==
    \A e \in Endpoints : DueForScheduler(e) ~> ~DueForScheduler(e)

\* The state the live-configuration specification starts in.
AfterLogin ==
    /\ isUnlocked /\ fernet = "p1"
    /\ data = [c \in ConnectCats |-> StaleStatusFile.content]
    /\ disk = [c \in ConnectCats |-> StaleStatusFile]
    /\ now = RefreshInterval /\ ticks = 0 /\ purgePc = "idle"
    /\ configured = {"vcB"} /\ enabled = {} /\ changes = 0
    /\ conns = EmptyDict /\ lastTrigger = EmptyDict /\ connOrder = << >>
    /\ \A j \in 1..MaxJobs : jobs[j] = IdleJob
    /\ lockKey = NoKey /\ phase = "unlocked" /\ lockedWrite = FALSE
    /\ connectCall = [NewCall(<< >>, "p1") EXCEPT !.pc = "done", !.idx = 1, !.derived = "ok"]
    /\ worker = [NoWorker EXCEPT !.pc = "top"]
    /\ stopEvent = FALSE
    /\ disconnectCall = NoDisconnect

\* ------------------------------------------------------------- claims: one connector

\* The step is a call of the named method on the connector.
CallStep(op) == connHist'.seq # connHist.seq /\ connHist'.op = op

\* C21: an is_alive() whose probe fails leaves the connector without session
\* and content, and from then until the next successful connect every
\* is_alive() returns False and every fetch returns the empty result.
C21_FailedProbeTearsDown ==
    [][/\ (CallStep("is_alive") /\ connector.si /\ ~Answers) => connector' = NewConnection
       /\ (CallStep("is_alive") /\ connHist.failedProbe) => connHist'.ret = Returned(FALSE)
       /\ (CallStep("fetch") /\ connHist.failedProbe) => connHist'.ret = EmptyResult
      ]_vars

\* C22: a connect that returns failure leaves the connector with neither
\* session nor content, and is_alive() false.
C22_FailedConnectLeavesNothing ==
    [][(CallStep("connect") /\ connHist'.ret = Returned(FALSE)) =>
          /\ connector' = NewConnection
          /\ ~is_alive(connector', remote'.reachable /\ remote'.session)
      ]_vars

\* The kind the connect contract gives a failure: InvalidLogin is auth;
\* refused, reset and aborted connections are network; a timeout (TimeoutError,
\* or an OSError whose text says "timed out") is timeout; every SSLError, a
\* certificate failure included, is ssl; every other OSError (no route,
\* unreachable, DNS, broken pipe, anything else) is network; the rest unknown.
KindOf(x, text) ==
    CASE x = "InvalidLogin" -> "auth"
      [] x \in {"ConnectionRefusedError", "ConnectionResetError", "ConnectionAbortedError"}
            -> "network"
      [] x = "TimeoutError" -> "timeout"
      [] x \in {"SSLCertVerificationError", "SSLError"} -> "ssl"
      [] x \in {"OSError", "gaierror", "BrokenPipeError"}
            -> IF text = "timed out" THEN "timeout" ELSE "network"
      [] OTHER -> "unknown"

\* C23 (amended): once connect has been called, the connector's last error
\* kind is the kind its most recent connect returned: None after a success,
\* and after a failure the one kind of {auth, network, timeout, ssl, unknown}
\* that KindOf gives the exception raised.
C23_ErrorKindOfLastConnect ==
    connHist.kind # "n/a" =>
        /\ lastErrorType = connHist.kind
        /\ IF connHist.exc = "none" THEN connHist.kind = NoError
           ELSE /\ connHist.kind \in ErrorKinds
                /\ connHist.kind = KindOf(connHist.exc, connHist.text)

\* C23 witness: a connect has just failed on a certificate that does not
\* verify; the kind returned and stored is ssl.
C23_Witness ==
    /\ connHist.op = "connect"
    /\ connHist.ret = Returned(FALSE)
    /\ connHist.exc = "SSLCertVerificationError"
    /\ lastErrorType = "ssl"

\* C23 witness: a success after a failure has reset the kind to None.
C23_WitnessReset ==
    /\ connHist.op = "connect"
    /\ connHist.ret = Returned(TRUE)
    /\ lastErrorType = NoError
    /\ connHist.failedProbe = FALSE
    /\ connector.si

\* The kind the claim as stated gives a failure: taxonomy {auth, network,
\* timeout, tls, unknown}; certificate failure is tls; anything not listed is
\* unknown.
StatedKindOf(x, text) ==
    CASE x = "InvalidLogin" -> "auth"
      [] x \in {"ConnectionRefusedError", "ConnectionResetError", "ConnectionAbortedError",
                "gaierror"} -> "network"
      [] x = "OSError" /\ text \in {"no route to host", "unreachable"} -> "network"
      [] x = "TimeoutError" \/ text = "timed out" -> "timeout"
      [] x = "SSLCertVerificationError" -> "tls"
      [] OTHER -> "unknown"

\* C23 as stated.
C23_TaxonomyAsStated ==
    connHist.kind # "n/a" =>
        /\ lastErrorType = connHist.kind
        /\ IF connHist.exc = "none" THEN connHist.kind = NoError
           ELSE /\ connHist.kind \in {"auth", "network", "timeout", "tls", "unknown"}
                /\ connHist.kind = StatedKindOf(connHist.exc, connHist.text)

\* ------------------------------------------------------------- claims: cache reads

\* The endpoints the registry does not hold as enabled: disabled, or removed.
NotEnabled == Endpoints \ enabled_vc_ids

\* No list or dict accessor, get_vcenter_status() without an id, or
\* get_cached_stats returns anything of endpoint e.
ExcludedFromLists(e) ==
    /\ \A c \in DOMAIN data : e \notin DOMAIN get_all(c)
    /\ \A c \in DOMAIN data \ {StatusCategory} :
          \A i \in DOMAIN gather(c) : gather(c)[i].vcenter_id # e
    /\ e \notin DOMAIN get_vcenter_status_all
    /\ get_cached_stats.has_data =>
          /\ e \notin DOMAIN get_cached_stats.per_vcenter
          /\ \A i \in DOMAIN get_cached_stats.raw_alerts :
                get_cached_stats.raw_alerts[i].vcenter_id # e

\* C24: every read accessor, get_vcenter_status(vc_id) with an id included,
\* returns nothing of an endpoint that is not enabled at the time of the read.
C24_OnlyEnabledReturned ==
    \A e \in NotEnabled :
        /\ ExcludedFromLists(e)
        /\ get_vcenter_status(e) = NoStatus

\* C24, the accessors that filter: what holds of the code without the by-id
\* form of get_vcenter_status.
C24_ListsOnlyEnabled == \A e \in NotEnabled : ExcludedFromLists(e)

\* An endpoint was removed while the store holds its VMs and its status.
C24_RemovedWhileCached ==
    \E e \in NotEnabled :
        /\ isUnlocked
        /\ e \in DOMAIN data["vms"] /\ data["vms"][e] # EmptyResult
        /\ e \in DOMAIN data[StatusCategory]
        /\ disk["vms"].kind = "enc" /\ e \in DOMAIN disk["vms"].content
        /\ get_cached_stats.has_data

\* The last refresh cycle of e ran to its end: _refresh_task stored READY
\* (line 108) after the fetches and saves.
Completed(e) ==
    /\ e \in DOMAIN data[StatusCategory]
    /\ data[StatusCategory][e].status = "READY"

\* C25: on the unlocked store get_cached_stats has data exactly when some
\* enabled endpoint has completed a refresh, whatever the refresh found.
C25_HasDataIffRefreshed ==
    isUnlocked => (get_cached_stats.has_data <=> \E e \in enabled_vc_ids : Completed(e))

\* C25, second half: once an enabled endpoint has completed a refresh,
\* get_cached_stats has data.
C25_RefreshedHasData ==
    (isUnlocked /\ \E e \in enabled_vc_ids : Completed(e)) => get_cached_stats.has_data

\* What the code computes instead: it has data exactly when some total of
\* line 248 is not zero.
C25_HasDataIffNonZero ==
    get_cached_stats.has_data <=>
        \/ Len(gather("vms")) > 0
        \/ Len(gather("hosts")) > 0
        \/ CountWhere(gather("alerts"), "severity", "critical") > 0
        \/ CountWhere(gather("alerts"), "severity", "warning") > 0

\* The records of category c cached for enabled endpoints, each named by its
\* endpoint and its position in that endpoint's list.
CachedRecords(c) ==
    UNION {{<<e, i>> : i \in DOMAIN Records(c, e, data[c][e])} :
              e \in DOMAIN data[c] \cap enabled_vc_ids}

\* The record a name stands for.
RecordAt(c, p) == Records(c, p[1], data[c][p[1]])[p[2]]

\* How many cached records of enabled endpoints carry the value in the field.
CachedWhere(c, field, value) ==
    Cardinality({p \in CachedRecords(c) : RecordAt(c, p)[field] = value})

\* C26: when get_cached_stats has data, its totals are the counts over the
\* cached VM, host and alert records of the enabled endpoints.
C26_TotalsAreCounts ==
    get_cached_stats.has_data =>
        /\ get_cached_stats.total_vms = Cardinality(CachedRecords("vms"))
        /\ get_cached_stats.powered_on_vms = CachedWhere("vms", "power_state", "poweredOn")
        /\ get_cached_stats.powered_on_vms <= get_cached_stats.total_vms
        /\ get_cached_stats.host_count = Cardinality(CachedRecords("hosts"))
        /\ get_cached_stats.critical_alerts = CachedWhere("alerts", "severity", "critical")
        /\ get_cached_stats.warning_alerts = CachedWhere("alerts", "severity", "warning")

\* C26 witness: the statistics have data from an enabled endpoint with VMs
\* powered on and off, hosts and alerts of every severity, while the store
\* also holds the VMs and alerts of an endpoint that has been removed.
C26_Witness ==
    /\ get_cached_stats.has_data
    /\ \E e \in enabled_vc_ids :
          /\ e \in DOMAIN data["vms"] /\ data["vms"][e] = "s1"
          /\ e \in DOMAIN data["hosts"] /\ data["hosts"][e] = "raw"
          /\ e \in DOMAIN data["alerts"] /\ data["alerts"][e] = "s1"
    /\ \E e \in NotEnabled :
          /\ e \in DOMAIN data["vms"] /\ data["vms"][e] = "s1"
          /\ e \in DOMAIN data["alerts"] /\ data["alerts"][e] = "s1"
    /\ get_cached_stats.total_vms = 2
    /\ get_cached_stats.powered_on_vms = 1

\* A connect_all call has returned with e connected and C not, and the
\* refresh of e that it triggered has completed.
PartialLogin(e, C) ==
    /\ connectCall.pc = "done"
    /\ isUnlocked
    /\ e \in DOMAIN connectCall.results /\ connectCall.results[e]
    /\ C \in DOMAIN connectCall.results /\ ~connectCall.results[C]
    /\ Completed(e)
    /\ {e, C} \subseteq enabled_vc_ids

\* C27: after such a login get_cached_stats has data, its breakdown has an
\* entry for every enabled endpoint, and the entry of C shows no VMs and
\* connected = False.
C27_BreakdownAfterPartialLogin ==
    \A e, C \in Endpoints :
        PartialLogin(e, C) =>
            /\ get_cached_stats.has_data
            /\ \A x \in enabled_vc_ids : x \in DOMAIN get_cached_stats.per_vcenter
            /\ get_cached_stats.per_vcenter[C].vms = 0
            /\ ~get_cached_stats.per_vcenter[C].connected

\* C27 where the refreshed endpoint has records, so that the statistics have
\* data: the breakdown has an entry for every enabled endpoint.
C27_BreakdownCoversEnabled ==
    \A e, C \in Endpoints :
        (PartialLogin(e, C) /\ get_cached_stats.has_data) =>
            \A x \in enabled_vc_ids : x \in DOMAIN get_cached_stats.per_vcenter

\* The breakdown the code builds: one entry per enabled endpoint that has a
\* status record.
C27_BreakdownIsStatusRecords ==
    get_cached_stats.has_data =>
        DOMAIN get_cached_stats.per_vcenter = DOMAIN data[StatusCategory] \cap enabled_vc_ids

\* ------------------------------------------------------------- claims: save frame

\* What save_<c>(e, v) on the unlocked store leaves and makes: the entry of e
\* is v, the other entries of c and every other category in memory are as
\* before, every other file is as before, and the file of c decrypts under
\* the store's key to every entry of the in-memory category, in JSON form.
SaveFrame(c, e, v) ==
    /\ DOMAIN data'[c] = DOMAIN data[c] \cup {e}
    /\ data'[c][e] = v
    /\ \A x \in DOMAIN data[c] \ {e} : data'[c][x] = data[c][x]
    /\ \A k \in DOMAIN data \ {c} : data'[k] = data[k] /\ disk'[k] = disk[k]
    /\ Decrypts(disk'[c], fernet')
    /\ DOMAIN disk'[c].content = DOMAIN data'[c]
    /\ \A x \in DOMAIN data'[c] : disk'[c].content[x] = JsonValue(data'[c][x])

ReadStep == lastRead'.seq # lastRead.seq

\* C30: a call of get_connection_status, get_stats / get_cached_stats or a
\* get_all_* accessor starts no refresh job and leaves the status records
\* (status and last-refresh time) and the trigger times as they are.
C30_ReadsHaveNoRefreshEffect ==
    [][ReadStep =>
          /\ jobs' = jobs
          /\ lastTrigger' = lastTrigger
          /\ data'[StatusCategory] = data[StatusCategory]
          /\ disk'[StatusCategory] = disk[StatusCategory]]_vars

\* C30 witness: get_connection_status has just returned on the unlocked store
\* for two connections, one connected and READY whose trigger time is set,
\* one not connected, while no refresh job runs.
C30_Witness ==
    /\ lastRead.op = "get_connection_status"
    /\ isUnlocked
    /\ \E e, x \in DOMAIN lastRead.ret :
          /\ lastRead.ret[e].connected /\ lastRead.ret[e].refresh_status = "READY"
          /\ Completed(e)
          /\ lastTrigger[e] > 0
          /\ ~lastRead.ret[x].connected
    /\ \A j \in 1..MaxJobs : Ended(j)

\* C30 witness: get_stats has just returned statistics with data.
C30_WitnessStats ==
    /\ lastRead.op = "get_stats"
    /\ lastRead.ret.has_data

\* ------------------------------------------------------------- claims: the store's lock

\* A thread inside a store method holds the lock: no two are inside at once.
Serialized == \A t \in Threads : callers[t].pc # "out" => lockHolder = t

\* C28: the calls of the store are serialized by its lock, file writes
\* included; what get_all_vms returns is, for every endpoint, the complete
\* list the store holds at the return; and what get_cached_stats returns is
\* the statistics of one state of the vms, hosts, alerts and status
\* categories.
C28_SerializedByLock ==
    /\ Serialized
    /\ callers["reader"].pc = "return" => callers["reader"].acc = gather("vms")
    /\ callers["stats"].pc = "return" => callers["stats"].acc = get_cached_stats

\* C28 witness: get_cached_stats is about to return statistics with data
\* while the job thread waits outside with a save_vms done for both endpoints
\* and the files written.
C28_Witness ==
    /\ callers["stats"].pc = "return"
    /\ callers["stats"].acc.has_data
    /\ callers["stats"].acc.total_vms = 3
    /\ DOMAIN data["vms"] = Endpoints
    /\ disk["vms"].kind = "enc" /\ DOMAIN disk["vms"].content = Endpoints
    /\ DOMAIN callers["stats"].acc.per_vcenter = Endpoints

\* C28 witness: the job thread is between the assignment of save_vms and the
\* file write, holding the lock, while the reader has not entered.
C28_WitnessWriting ==
    /\ callers["job"].pc = "write" /\ callers["job"].op = "vms"
    /\ lockHolder = "job"
    /\ callers["reader"].pc = "out"
    /\ "vcA" \in DOMAIN data["vms"]
    /\ disk["vms"].kind = "enc"
    /\ disk["vms"].content # JsonRoundTrip("vms", data["vms"])

\* C28 witness: get_all_vms is about to return the lists of both endpoints.
C28_WitnessReader ==
    /\ callers["reader"].pc = "return"
    /\ Len(callers["reader"].acc) = 3

\* ------------------------------------------------------------- claims: failed login

\* The connect_all call has returned, it derived the key itself, it tried at
\* least one endpoint and no endpoint of its loop connected.
NoEndpointConnected ==
    /\ connectCall.pc = "done"
    /\ connectCall.derived = "ok"
    /\ DOMAIN connectCall.results # {}
    /\ \A e \in DOMAIN connectCall.results : ~connectCall.results[e]

\* C40: a connect_all in which no endpoint connects leaves the store locked,
\* not open under the key derived from the password no endpoint accepted.
C40_FailedLoginLeavesLocked == NoEndpointConnected => ~isUnlocked

\* ------------------------------------------------------------- SpecRelock

\* The relock specification: one enabled endpoint, the status records and
\* the three categories the statistics read; sessions under either password
\* (derive_key, lock), the connect of the endpoint, and refresh jobs whose
\* fetches the endpoint answers, each triggered when no other is in flight.
InitRelock ==
    /\ isUnlocked = FALSE
    /\ fernet = NoKey
    /\ data = [c \in StatsCats |-> EmptyDict]
    /\ disk = [c \in StatsCats |-> NoFile]
    /\ now = 0
    /\ ticks = 0
    /\ purgePc = "idle"
    /\ enabled = RefreshEnabled
    /\ configured = Endpoints
    /\ changes = 0
    /\ InitConnector
    /\ InitSync
    /\ InitExt
    /\ InitManager
    /\ InitHistory
    /\ InitProcs

NextRelock ==
    \/ \E p \in Passwords : CacheUnlock(p)
    \/ CacheLock
    \/ \E e \in RefreshEnabled : ConnConnect(e, "ok")
    \/ \E e \in RefreshEnabled : TriggerWhenIdle(e)
    \/ \E j \in 1..MaxJobs : JobCheck(j)
    \/ \E j \in 1..MaxJobs : JobSetRefreshing(j)
    \/ \E j \in 1..MaxJobs : JobFetch(j, "ok", "s1")
    \/ \E j \in 1..MaxJobs : JobFinish(j)

SpecRelock == InitRelock /\ [][NextRelock]_vars

\* ------------------------------------------------------------- claims: breakdown sums

\* sum(entry[field] for entry in per_vcenter.values())
RECURSIVE SumField(_, _, _)
SumField(pv, ids, field) ==
    IF ids = {} THEN 0
    ELSE LET e == CHOOSE x \in ids : TRUE
         IN pv[e][field] + SumField(pv, ids \ {e}, field)

\* C39: in every get_cached_stats result with has_data, the per-endpoint
\* vms, hosts and alert counts add up to total_vms, host_count and
\* critical_alerts + warning_alerts.
C39_BreakdownSumsToTotals ==
    get_cached_stats.has_data =>
        LET s == get_cached_stats
            ids == DOMAIN s.per_vcenter
        IN /\ SumField(s.per_vcenter, ids, "vms") = s.total_vms
           /\ SumField(s.per_vcenter, ids, "hosts") = s.host_count
           /\ SumField(s.per_vcenter, ids, "critical") + SumField(s.per_vcenter, ids, "warning")
                 = s.critical_alerts + s.warning_alerts

\* ------------------------------------------------------------- claims: jobs across a lock

\* A step of the _refresh_task thread in slot j that changes the store's
\* memory or files.
JobWrites(j) ==
    /\ Running(j)
    /\ jobs'[j] # jobs[j]
    /\ <<data', disk'>> # <<data, disk>>

\* C38: a refresh job never writes category data or a status into the store of
\* a later unlock: every write of a job happens under the key the store held
\* when the job was started.
C38_OldJobNeverWrites ==
    [][\A j \in 1..MaxJobs : JobWrites(j) => jobs[j].key = fernet]_vars

\* ------------------------------------------------------------- claims: purge_cache

\* The step on which purge_cache returns.
PurgeCompletes == purgePc = "lock" /\ purgePc' = "idle"

\* C36: when purge_cache completes, no encrypted category file exists and the
\* store is locked, whatever a refresh job wrote while the purge ran.
C36_PurgeLeavesNoFile ==
    [][PurgeCompletes => /\ ~isUnlocked'
                         /\ \A c \in DOMAIN disk' : disk'[c] = NoFile]_vars

\* ------------------------------------------------------------- start_worker, thread by thread

\* The thread-level view of one manager that has no connection (settings with
\* no endpoint): connect_all's loop of lines 132-142 and the scan of
\* _worker_loop lines 47-53 have no iteration, so that a connect_all call is
\* lines 127-131 and a tick is lines 43-46 and the sleep.

\* Thread.is_alive(): started and its run() not yet returned; a thread that
\* has left the while loop is alive until it has ended.
ThreadAlive(t) == schedThreads[t] \notin {"unborn", "dead"}

\* The thread is inside the while loop of _worker_loop.
ThreadInLoop(t) == schedThreads[t] \in {"top", "check", "sleep"}

\* "self._worker_thread and self._worker_thread.is_alive()"
worker_thread_alive == workerThread # 0 /\ ThreadAlive(workerThread)

\* No other caller is inside connect_all: the calls come from handlers that
\* run one after the other on the event loop.
Serial(c) == \A d \in Callers \ {c} : starters[d] \in {"out", "done"}

\* connect_all lines 127-128 with a password derive_key accepts.
CallUnlock(c, p) ==
    /\ starters[c] \in {"out", "done"}
    /\ disconnectCall.pc \in {"idle", "done"}
    /\ IF isUnlocked
       THEN UNCHANGED <<cacheVars, histVars>>
       ELSE derive_key(p) /\ RecordUnlock(p)
    /\ starters' = [starters EXCEPT ![c] = "start_worker"]
    /\ UNCHANGED <<clockVars, purgePc, syncVars, cfgVars, connVars, mgrVars, procVars,
                   workerThread, schedThreads, fanout, handler>>

\* A connect_all call made by a handler on the event loop.
SerialCall(c, p) == Serial(c) /\ CallUnlock(c, p)

\* A lock() made by a handler on the event loop (purge_cache, clear_session).
HandlerLock == (\A c \in Callers : starters[c] \in {"out", "done"}) /\ CacheLock

\* A start_worker that does not look at the thread it already has.
start_worker_decision_unchecked(unlocked, alive) == IF unlocked THEN "start_thread" ELSE "loop"

\* start_worker lines 28-29: the two early returns.
start_worker_decision(unlocked, alive) ==
    IF ~unlocked THEN "loop"
    ELSE IF alive THEN "loop"
    ELSE "start_thread"

\* connect_all line 129 into start_worker lines 28-29.
StartCheck(c) ==
    /\ starters[c] = "start_worker"
    /\ starters' = [starters EXCEPT ![c] = start_worker_decision(isUnlocked, worker_thread_alive)]
    /\ UNCHANGED <<cacheVars, histVars, clockVars, purgePc, syncVars, cfgVars, connVars, mgrVars, procVars,
                   workerThread, schedThreads, fanout, handler>>

\* start_worker lines 30-32: clear the stop event, create the thread, keep it
\* in _worker_thread and start it.
StartThread(c) ==
    /\ starters[c] = "start_thread"
    /\ \E t \in 1..MaxThreads :
          /\ schedThreads[t] = "unborn"
          /\ \A u \in 1..(t - 1) : schedThreads[u] # "unborn"
          /\ schedThreads' = [schedThreads EXCEPT ![t] = "top"]
          /\ workerThread' = t
    /\ stopEvent' = FALSE
    /\ starters' = [starters EXCEPT ![c] = "loop"]
    /\ UNCHANGED <<cacheVars, histVars, clockVars, purgePc, syncVars, cfgVars, connVars, mgrVars,
                   connectCall, worker, disconnectCall, fanout, handler>>

\* connect_all lines 130-142 with no target, and the return of the results.
CallReturn(c) ==
    /\ starters[c] = "loop"
    /\ starters' = [starters EXCEPT ![c] = "done"]
    /\ UNCHANGED <<cacheVars, histVars, clockVars, purgePc, syncVars, cfgVars, connVars, mgrVars, procVars,
                   workerThread, schedThreads, fanout, handler>>

\* _worker_loop line 43: the while test.
ThreadTop(t) ==
    /\ schedThreads[t] = "top"
    /\ schedThreads' = [schedThreads EXCEPT ![t] = IF stopEvent THEN "leaving" ELSE "check"]
    /\ UNCHANGED <<cacheVars, histVars, clockVars, purgePc, syncVars, cfgVars, connVars, mgrVars, procVars,
                   starters, workerThread, fanout, handler>>

\* _worker_loop lines 45-53: break on a locked store, else the (empty) scan.
ThreadCheck(t) ==
    /\ schedThreads[t] = "check"
    /\ schedThreads' = [schedThreads EXCEPT ![t] = IF isUnlocked THEN "sleep" ELSE "leaving"]
    /\ UNCHANGED <<cacheVars, histVars, clockVars, purgePc, syncVars, cfgVars, connVars, mgrVars, procVars,
                   starters, workerThread, fanout, handler>>

\* _worker_loop lines 54-56: the sleep, back to the while test.
ThreadSleep(t) ==
    /\ schedThreads[t] = "sleep"
    /\ schedThreads' = [schedThreads EXCEPT ![t] = "top"]
    /\ UNCHANGED <<cacheVars, histVars, clockVars, purgePc, syncVars, cfgVars, connVars, mgrVars, procVars,
                   starters, workerThread, fanout, handler>>

\* The thread's run() returns: is_alive() is False from here on.
ThreadEnd(t) ==
    /\ schedThreads[t] = "leaving"
    /\ schedThreads' = [schedThreads EXCEPT ![t] = "dead"]
    /\ UNCHANGED <<cacheVars, histVars, clockVars, purgePc, syncVars, cfgVars, connVars, mgrVars, procVars,
                   starters, workerThread, fanout, handler>>

\* stop_worker lines 36-37 (from disconnect_all line 145).
StopSet ==
    /\ disconnectCall.pc = "idle"
    /\ stopEvent' = TRUE
    /\ disconnectCall' = [disconnectCall EXCEPT !.pc = IF workerThread = 0 THEN "lock" ELSE "join"]
    /\ UNCHANGED <<cacheVars, histVars, clockVars, purgePc, syncVars, cfgVars, connVars, mgrVars,
                   connectCall, worker, extVars>>

\* stop_worker line 38: join(timeout=2) on the thread _worker_thread names; a
\* thread of a manager without connections notices the event within its
\* sleep, so the join returns when that thread has ended.
StopJoin ==
    /\ disconnectCall.pc = "join"
    /\ ~worker_thread_alive
    /\ disconnectCall' = [disconnectCall EXCEPT !.pc = "lock"]
    /\ UNCHANGED <<cacheVars, histVars, clockVars, purgePc, syncVars, cfgVars, connVars, mgrVars,
                   connectCall, worker, stopEvent, extVars>>

\* disconnect_all lines 146-147: cache.lock(), and no connection to close.
StopLock ==
    /\ disconnectCall.pc = "lock"
    /\ lock
    /\ RecordLock
    /\ disconnectCall' = [disconnectCall EXCEPT !.pc = "done"]
    /\ UNCHANGED <<clockVars, purgePc, syncVars, cfgVars, connVars, mgrVars, connectCall, worker, stopEvent,
                   extVars>>

\* The steps of the scheduler threads.
ThreadNext ==
    \/ \E t \in 1..MaxThreads : ThreadTop(t)
    \/ \E t \in 1..MaxThreads : ThreadCheck(t)
    \/ \E t \in 1..MaxThreads : ThreadSleep(t)
    \/ \E t \in 1..MaxThreads : ThreadEnd(t)

\* ------------------------------------------------------------- SpecStart

\* The start specification: a manager without endpoints on a locked store;
\* connect_all calls that run one after the other, the scheduler threads they
\* start, and lock() calls of other handlers between them (purge_cache,
\* clear_session).
InitStart ==
    /\ isUnlocked = FALSE
    /\ fernet = NoKey
    /\ data = [c \in ConnectCats |-> EmptyDict]
    /\ disk = [c \in ConnectCats |-> NoFile]
    /\ now = 0
    /\ ticks = 0
    /\ purgePc = "idle"
    /\ enabled = {}
    /\ configured = {}
    /\ changes = 0
    /\ InitConnector
    /\ InitSync
    /\ InitExt
    /\ InitManager
    /\ InitHistory
    /\ InitProcs

NextStart ==
    \/ \E c \in Callers, p \in Passwords : SerialCall(c, p)
    \/ \E c \in Callers : StartCheck(c)
    \/ \E c \in Callers : StartThread(c)
    \/ \E c \in Callers : CallReturn(c)
    \/ ThreadNext
    \/ HandlerLock

SpecStart == InitStart /\ [][NextStart]_vars

\* ------------------------------------------------------------- SpecStartRace

\* The race specification: the same manager with its connect_all calls made
\* from two threads at once, and one disconnect_all call.
NextStartRace ==
    \/ \E c \in Callers : CallUnlock(c, "p1")
    \/ \E c \in Callers : StartCheck(c)
    \/ \E c \in Callers : StartThread(c)
    \/ \E c \in Callers : CallReturn(c)
    \/ ThreadNext
    \/ StopSet
    \/ StopJoin
    \/ StopLock

SpecStartRace == InitStart /\ [][NextStartRace]_vars

\* ------------------------------------------------------------- claims: scheduler threads

\* C35: at most one scheduler thread of a manager is alive at any time.
C35_OneSchedulerThread == Cardinality({t \in 1..MaxThreads : ThreadAlive(t)}) <= 1

\* The last connect_all call has returned, no call is under way and no stop
\* was requested.
CallsReturned ==
    /\ \E c \in Callers : starters[c] = "done"
    /\ \A c \in Callers : starters[c] \in {"out", "done"}
    /\ disconnectCall.pc = "idle"

\* C37: whenever connect_all has returned and the store is unlocked, a
\* scheduler thread of the manager is inside its loop.
C37_UnlockedHasScheduler ==
    (CallsReturned /\ isUnlocked) => \E t \in 1..MaxThreads : ThreadInLoop(t)

\* ------------------------------------------------------------- get_all_recent_events / get_all_recent_tasks

\* The frame of a step of the fan-out read and of its pool threads.
FanoutFrame ==
    UNCHANGED <<cacheVars, histVars, clockVars, purgePc, syncVars, cfgVars, connVars, mgrVars, procVars,
                starters, workerThread, schedThreads, handler>>

\* What conn.get_recent_events(minutes) / get_recent_tasks(minutes) returns
\* once the endpoint has answered: [] without content, else its records.
get_recent(conn, v) == IF conn.content THEN v ELSE EmptyResult

\* Lines 190-192 / 205-207: the pool and one submitted call per connection
\* whose is_alive() probe answers.  `slow` is the set of endpoints whose call
\* never completes in this behaviour (at most one of them).
FanoutSubmit(slow) ==
    /\ fanout.pc = "idle"
    /\ Len(ConnectionIds) > 0
    /\ fanout' = [pc |-> "collect",
                  futures |-> [e \in {x \in DOMAIN conns : is_alive(conns[x], TRUE)} |->
                                  [state |-> "running", result |-> EmptyResult, slow |-> e \in slow]],
                  gathered |-> {}]
    /\ FanoutFrame

\* A pool thread: the call of one endpoint completes and sets its future.
FutureCompletes(e, v) ==
    /\ fanout.pc = "collect"
    /\ e \in DOMAIN fanout.futures
    /\ fanout.futures[e].state = "running"
    /\ ~fanout.futures[e].slow
    /\ fanout' = [fanout EXCEPT !.futures[e].state = "done",
                                !.futures[e].result = get_recent(conns[e], v)]
    /\ FanoutFrame

\* Lines 193-197 / 208-212: as_completed yields a future that is done, and
\* future.result(timeout=30) returns its list at once.
FanoutGather(e) ==
    /\ fanout.pc = "collect"
    /\ e \in DOMAIN fanout.futures
    /\ fanout.futures[e].state = "done"
    /\ e \notin fanout.gathered
    /\ fanout' = [fanout EXCEPT !.gathered = @ \cup {e}]
    /\ FanoutFrame

\* as_completed(futures), called without a timeout, ends when every future
\* is done; the exit of the with block (shutdown(wait=True)) waits for every
\* pool thread; then the sort and the return of lines 200-201 / 215-216.
FanoutReturn ==
    /\ fanout.pc = "collect"
    /\ \A e \in DOMAIN fanout.futures : fanout.futures[e].state = "done"
    /\ fanout.gathered = DOMAIN fanout.futures
    /\ fanout' = [fanout EXCEPT !.pc = "returned"]
    /\ FanoutFrame

\* The caller is done with the result; the next request may call again.
FanoutNextRequest ==
    /\ fanout.pc = "returned"
    /\ fanout' = NoFanout
    /\ FanoutFrame

\* The steps of the call and of its pool threads.
FanoutNext ==
    \/ \E e \in Endpoints, v \in {"s1", EmptyResult} : FutureCompletes(e, v)
    \/ \E e \in Endpoints : FanoutGather(e)
    \/ FanoutReturn

\* ------------------------------------------------------------- SpecFanout

\* A connect / disconnect of a connection while no fan-out read is under way.
ConnectBetweenReads(e, outcome) == fanout.pc = "idle" /\ ConnConnect(e, outcome)
DisconnectBetweenReads(e) == fanout.pc = "idle" /\ ConnDisconnect(e)

\* The sets of endpoints whose call never completes: none, or one.
SlowSets == {S \in SUBSET Endpoints : Cardinality(S) <= 1}

\* The fan-out specification: both endpoints configured, their connections
\* connected and disconnected at any time outside a read, and fan-out reads in
\* which at most one endpoint never completes its call; the calling thread and
\* the pool threads of the endpoints that answer are scheduled fairly.
InitFanout ==
    /\ isUnlocked = TRUE
    /\ fernet = "p1"
    /\ data = [c \in ConnectCats |-> EmptyDict]
    /\ disk = [c \in ConnectCats |-> NoFile]
    /\ now = 0
    /\ ticks = 0
    /\ purgePc = "idle"
    /\ enabled = Endpoints
    /\ configured = Endpoints
    /\ changes = 0
    /\ InitConnector
    /\ InitSync
    /\ InitExt
    /\ InitManager
    /\ InitHistory
    /\ InitProcs

NextFanout ==
    \/ \E e \in Endpoints, outcome \in {"ok", "content_fails"} : ConnectBetweenReads(e, outcome)
    \/ \E e \in Endpoints : DisconnectBetweenReads(e)
    \/ \E slow \in SlowSets : FanoutSubmit(slow)
    \/ FanoutNext
    \/ FanoutNextRequest

SpecFanout == InitFanout /\ [][NextFanout]_vars /\ WF_vars(FanoutNext)

\* ------------------------------------------------------------- claims: fan-out reads

\* C31: a fan-out read that has submitted its calls returns, also when the
\* call of one endpoint never completes, and what it returns holds the
\* results of the endpoints that answered.
C31_FanOutReturns ==
    /\ (fanout.pc = "collect") ~> (fanout.pc = "returned")
    /\ [](fanout.pc = "returned" =>
             fanout.gathered = {e \in DOMAIN fanout.futures : fanout.futures[e].state = "done"})

\* ------------------------------------------------------------- add_vcenter, statement by statement

\* add_vcenter lines 46-54: the configuration is stored and the connection
\* is put into manager.connections (and manager.configs).
AddInsert(e) ==
    /\ handler.pc = "idle"
    /\ HandlerMayRun
    /\ Fresh(e)
    /\ configured' = configured \cup {e}
    /\ enabled' = flags_after_store(enabled, e)
    /\ conns' = Upsert(conns, e, NewConnection)
    /\ connOrder' = Append(connOrder, e)
    /\ handler' = [pc |-> "inserted", e |-> e]
    /\ UNCHANGED <<cacheVars, histVars, clockVars, purgePc, syncVars, changes, lastTrigger, jobs, procVars,
                   connVars, starters, workerThread, schedThreads, fanout>>

\* add_vcenter line 55: manager._last_refresh_trigger[new_id] = 0.
AddStamp ==
    /\ handler.pc = "inserted"
    /\ lastTrigger' = Upsert(lastTrigger, handler.e, 0)
    /\ changes' = changes + 1
    /\ handler' = NoHandler
    /\ UNCHANGED <<cacheVars, histVars, clockVars, purgePc, syncVars, enabled, configured, connOrder, conns,
                   jobs, procVars, connVars, starters, workerThread, schedThreads, fanout>>

\* ------------------------------------------------------------- SpecAdd

\* The add specification: a manager with the endpoint vcA after a login (store
\* unlocked, scheduler thread running, connect_all returned); vcA is connected
\* and disconnected, vcB is added through the settings handler, whose
\* statements interleave with the steps of the scheduler thread and of the
\* refresh jobs, and removed again. Every probe answers.
InitAdd ==
    /\ isUnlocked = TRUE
    /\ fernet = "p1"
    /\ data = [c \in ConnectCats |-> EmptyDict]
    /\ disk = [c \in ConnectCats |-> NoFile]
    /\ now = RefreshInterval
    /\ ticks = 0
    /\ purgePc = "idle"
    /\ configured = {"vcA"}
    /\ enabled = {"vcA"}
    /\ changes = 0
    /\ InitConnector
    /\ InitSync
    /\ InitExt
    /\ InitManager
    /\ InitHistory
    /\ connectCall = [NewCall(<< >>, "p1") EXCEPT !.pc = "done", !.idx = 1]
    /\ worker = [NoWorker EXCEPT !.pc = "top"]
    /\ stopEvent = FALSE
    /\ disconnectCall = NoDisconnect

\* A settings handler that starts while no other is between its statements.
DeleteBetweenHandlers(e) == handler.pc = "idle" /\ delete_vcenter(e)

NextAdd ==
    \/ \E e \in Endpoints : AddInsert(e)
    \/ AddStamp
    \/ \E e \in Endpoints : DeleteBetweenHandlers(e)
    \/ \E e \in Endpoints : ConnConnect(e, "ok")
    \/ \E e \in Endpoints : ConnDisconnect(e)
    \/ WorkerNextAnswered
    \/ JobNext

SpecAdd == InitAdd /\ [][NextAdd]_vars

\* ------------------------------------------------------------- claims: the two maps

\* The scheduler thread reads the maps for the next connection of its scan.
ScanReads ==
    /\ worker.pc = "scan"
    /\ worker' # worker
    /\ Len(ConnectionIds) = worker.n
    /\ worker.idx <= Len(ConnectionIds)

\* C33: the scheduler never meets an endpoint that is in the connection map
\* and not in the last-trigger map, and once a handler has completed the two
\* maps have the same key set.
C33_MapsChangeAtomically ==
    /\ [][ScanReads => ConnectionIds[worker.idx] \in DOMAIN lastTrigger]_vars
    /\ [](handler.pc = "idle" => DOMAIN conns = DOMAIN lastTrigger)

\* C33, the key sets alone: the connection map and the last-trigger map of
\* the manager have the same keys.
C33_MapsHaveSameKeys == DOMAIN conns = DOMAIN lastTrigger

\* ------------------------------------------------------------- claims: order of a cycle

\* The order of the category steps of a refresh cycle.
StatedOrder == <<"hosts", "vms", "alerts", "networks", "clusters", "storage">>

\* Sequence s is the beginning of sequence t.
IsPrefix(s, t) == Len(s) <= Len(t) /\ s = SubSeq(t, 1, Len(s))

\* C32: within one cycle the steps happen in the order REFRESHING, hosts, VMs,
\* alerts, networks, clusters, storage, metadata and READY: the saves made so
\* far are a beginning of that order and none is made before the REFRESHING
\* write; each fetch step makes the save that is next in the order, the VM
\* fetch being given the host list this cycle has just saved; and a READY (or
\* ERROR) status is written only by a job that has made all six.
C32_CycleOrder ==
    /\ [](\A j \in 1..MaxJobs :
             /\ IsPrefix(jobs[j].saved, StatedOrder)
             /\ jobs[j].pc \in {"check", "set_refreshing"} => jobs[j].saved = << >>
             /\ jobs[j].pc = "finish" => jobs[j].saved = StatedOrder)
    /\ [][\A j \in 1..MaxJobs :
             /\ (jobs[j].pc = "set_refreshing" /\ jobs'[j] # jobs[j]) =>
                    StatusIn(data'[StatusCategory], jobs[j].e).status = "REFRESHING"
             /\ (jobs[j].pc = "fetch" /\ jobs'[j] # jobs[j]) =>
                    LET c == StatedOrder[Len(jobs[j].saved) + 1]
                    IN /\ jobs'[j].saved = Append(jobs[j].saved, c)
                       /\ jobs[j].e \in DOMAIN data'[c]
                       /\ c = "vms" => jobs'[j].hostsArg = data["hosts"][jobs[j].e]
                       /\ \A d \in DOMAIN data \ {c} : data'[d] = data[d]
             /\ \A e \in Endpoints :
                   (StatusIn(data'[StatusCategory], e) # StatusIn(data[StatusCategory], e)
                      /\ StatusIn(data'[StatusCategory], e).status \in {"READY", "ERROR"}) =>
                         \E k \in 1..MaxJobs :
                            jobs[k].e = e /\ jobs[k].pc = "finish" /\ jobs[k].saved = StatedOrder
      ]_vars

\* C32 witness: a job has saved hosts and VMs, in that order, and is about to
\* fetch alerts, the endpoint still REFRESHING.
C32_WitnessHostsThenVms ==
    \E j \in 1..MaxJobs :
        /\ jobs[j].pc = "fetch"
        /\ jobs[j].saved = <<"hosts", "vms">>
        /\ jobs[j].hostsArg = "s1"
        /\ data["hosts"][jobs[j].e] = "s1" /\ data["vms"][jobs[j].e] = "s1"
        /\ "alerts" \notin DOMAIN data \/ jobs[j].e \notin DOMAIN data["alerts"]
        /\ StatusIn(data[StatusCategory], jobs[j].e).status = "REFRESHING"

\* C32 witness: READY is stored for an endpoint whose six categories are all
\* in the store.
C32_Witness ==
    \E e \in Endpoints :
        /\ StatusIn(data[StatusCategory], e).status = "READY"
        /\ \A c \in SnapCategories : e \in DOMAIN data[c]
        /\ \A j \in 1..MaxJobs : jobs[j] = IdleJob

\* ------------------------------------------------------------- SpecTick

\* The tick specification: the add specification with probes that fail,
\* triggers that cannot start their thread, and lock() calls from elsewhere.
NextTick ==
    \/ NextAdd
    \/ WorkerProbe(FALSE)
    \/ WorkerTriggerFails
    \/ CacheLock

SpecTick == InitAdd /\ [][NextTick]_vars

\* ------------------------------------------------------------- claims: a failing tick

\* The step of the scheduler thread on which a tick fails: the dict iterator
\* or the lookup of the trigger time raises inside the scan, or the trigger
\* raises.
TickFails ==
    /\ worker' # worker
    /\ \/ /\ worker.pc = "scan"
          /\ \/ Len(ConnectionIds) # worker.n
             \/ /\ worker.idx <= Len(ConnectionIds)
                /\ ConnectionIds[worker.idx] \notin DOMAIN lastTrigger
       \/ worker.pc = "trigger" /\ jobs' = jobs /\ isUnlocked /\ WorkerId \in DOMAIN conns

\* The step on which a probe fails.
ProbeFails == worker.pc = "probe" /\ worker' # worker /\ worker'.pc # "trigger"

\* C34: a failure inside a tick never ends the scheduler loop: the thread
\* goes on to its sleep (a failed probe: to the next connection of the scan)
\* and from the sleep to the next while test; it ends only at the while test
\* with the stop event set or at the check of a tick that finds the store
\* locked.
C34_TickFailureKeepsLoop ==
    [][/\ TickFails => worker'.pc = "sleep"
       /\ ProbeFails => worker'.pc = "scan"
       /\ (worker.pc = "sleep" /\ worker' # worker) => worker'.pc = "top"
       /\ (worker.pc = "top" /\ worker' # worker /\ ~stopEvent) => worker'.pc = "check"
       /\ (worker.pc = "check" /\ worker' # worker /\ isUnlocked) => worker'.pc = "scan"
       /\ (worker.pc # "exited" /\ worker'.pc = "exited") =>
             \/ worker.pc = "top" /\ stopEvent
             \/ worker.pc = "check" /\ ~isUnlocked
      ]_vars

\* C34 witness: the thread is in the sleep after a tick that failed on an id
\* without a trigger time.
C34_Witness ==
    /\ worker.pc = "sleep"
    /\ worker.idx <= Len(ConnectionIds)
    /\ Len(ConnectionIds) = worker.n
    /\ ConnectionIds[worker.idx] \notin DOMAIN lastTrigger
    /\ isUnlocked /\ ~stopEvent

\* C34 witness: the thread is in the sleep after a tick whose trigger raised.
C34_WitnessTrigger ==
    /\ worker.pc = "sleep"
    /\ worker.idx <= Len(ConnectionIds)
    /\ ConnectionIds[worker.idx] \in DOMAIN lastTrigger
    /\ lastTrigger[ConnectionIds[worker.idx]] = now
    /\ \A j \in 1..MaxJobs : jobs[j] = IdleJob
    /\ isUnlocked
====
